---------------------------- MODULE Spec2Model ----------------------------
(***************************************************************************)
(* A model of the GyroKite designer's aerodynamic force model              *)
(* (src/services/physicsEngine.ts, calculatePhysics, lines 9-234) and of   *)
(* the callers that hand it a DesignParams value.                          *)
(*                                                                         *)
(* NUMBERS.  The program computes in IEEE-754 doubles and so does the      *)
(* model, bit for bit: a number is <<"fin", s, hi, lo, e>> with the sign   *)
(* s = 1 or -1, the significand hi * 2^28 + lo of at most 53 bits and the  *)
(* value s * (hi * 2^28 + lo) * 2^e, or NaN, or <<"inf", s, 0, 0, 0>>.     *)
(* Zero has a sign, small numbers are subnormal, large ones overflow to    *)
(* an infinity, and every operation rounds to nearest, ties to even.  The  *)
(* significand is held in two limbs of 28 bits, and wider intermediate     *)
(* values in four, because the model checker's integers have 32 bits.      *)
(* Math.sin, Math.cos and Math.atan2 belong to the JavaScript engine, not  *)
(* to the repository; the model computes them as V8 does, by the fdlibm    *)
(* routines.  Math.pow(x, 2) is the correctly rounded square.              *)
(*                                                                         *)
(* UNITS.  A DesignParams field holds its value in thousandths (1200 is    *)
(* 1.2 m, 60000 is 60 deg); an absent field is absent from the record.  A  *)
(* field of the returned SimulationResult is a JS number after rounding:   *)
(* [kind |-> "num", v |-> n] with n the value scaled by 10^digits (digits  *)
(* = 0 after Math.round, 1 after toFixed(1), 2 after toFixed(2)), or kind  *)
(* "NaN", "Infinity", "-Infinity", or kind "large", "-large" for a finite  *)
(* value of 2^30 units or more.  The field 0 stands for the program's 0    *)
(* and -0, which are equal under ===.                                      *)
(***************************************************************************)
EXTENDS Integers, Sequences, FiniteSets, TLC

VARIABLES params, locals, result, pc, calls, heap, w, data, arg, res,
          input, messages, isLoading, genAI, inFlight,
          alpha, loopIndex, coefficients, activeTab, memo

\* The variables of the Analysis sweep.
sweepVars == <<heap, w, data, arg, res>>

\* The variables of the Assistant.
chatVars == <<input, messages, isLoading, genAI, inFlight>>

\* The variables of one call of interpolateCoefficients.
tableVars == <<alpha, loopIndex, coefficients>>

\* The variables of App besides params and results.
appVars == <<activeTab, memo>>

vars == <<params, locals, result, pc, calls, sweepVars, chatVars, tableVars,
          appVars>>

---------------------------------------------------------------------------
(* IEEE-754 binary64 arithmetic, round to nearest, ties to even            *)

\* Every call of a function of the program or of its runtime goes through
\* Call, which runs the body of the function named f on the arguments a.
RECURSIVE Call(_, _)

Abs(n) == IF n < 0 THEN -n ELSE n

Sgn(n) == IF n < 0 THEN -1 ELSE IF n > 0 THEN 1 ELSE 0

\* The base of a limb.
Base == 2^28

NaN == <<"nan", 1, 0, 0, 0>>

Inf(s) == <<"inf", s, 0, 0, 0>>

Zero == <<"fin", 1, 0, 0, 0>>

SignedZero(s) == <<"fin", s, 0, 0, 0>>

IsFinite(x) == x[1] = "fin"

IsNaN(x) == x[1] = "nan"

IsZero(x) == x[1] = "fin" /\ x[3] = 0 /\ x[4] = 0

\* The sign bit of a number that is not NaN.
IsNegative(x) == x[2] < 0

\* The i-th limb of a wide natural <<w1, w2, w3, w4>> (w1 the lowest).
Limb(W, i) == IF i >= 1 /\ i <= 4 THEN W[i] ELSE 0

\* W \div 2^k for k >= 0, limb by limb: q whole limbs and r bits.
ShiftRightBy(W, q, r) ==
  [i \in 1..4 |-> (Limb(W, i + q) \div 2^r)
                    + (Limb(W, i + q + 1) % 2^r) * 2^(28 - r)]

ShiftRightW(W, k) == ShiftRightBy(W, k \div 28, k % 28)

\* W * 2^k for k >= 0, for a product below 2^112.
ShiftLeftBy(W, q, r) ==
  [i \in 1..4 |-> (Limb(W, i - q) % 2^(28 - r)) * 2^r
                    + (Limb(W, i - q - 1) \div 2^(28 - r))]

ShiftLeftW(W, k) == ShiftLeftBy(W, k \div 28, k % 28)

\* Whether any of the k lowest bits of W is set.
LostBits(W, k) ==
  \E i \in 1..4 : \/ i <= k \div 28 /\ W[i] # 0
                  \/ i = k \div 28 + 1 /\ W[i] % 2^(k % 28) # 0

\* Bit k of W (bit 0 the lowest).
BitW(W, k) == (Limb(W, k \div 28 + 1) \div 2^(k % 28)) % 2

\* The number of bits of v, 0 <= v < 2^28.
RECURSIVE BitLength(_)
BitLength(v) ==
  IF v >= 2^14 THEN 14 + BitLength(v \div 2^14)
  ELSE IF v >= 2^7 THEN 7 + BitLength(v \div 2^7)
  ELSE IF v >= 8 THEN 3 + BitLength(v \div 8)
  ELSE IF v >= 4 THEN 3 ELSE IF v >= 2 THEN 2 ELSE v

BitLengthW(W) ==
  IF W[4] # 0 THEN 84 + BitLength(W[4])
  ELSE IF W[3] # 0 THEN 56 + BitLength(W[3])
  ELSE IF W[2] # 0 THEN 28 + BitLength(W[2])
  ELSE BitLength(W[1])

\* The number s * (hi * 2^28 + lo) * 2^e from a significand below 2^53 + 1:
\* a carry out of the 53 bits moves the exponent, an exponent above 971 is
\* an overflow.
Pack(s, hi, lo, e) ==
  IF hi = 0 /\ lo = 0 THEN SignedZero(s)
  ELSE IF hi >= 2^25
       THEN (IF e + 1 > 971 THEN Inf(s) ELSE <<"fin", s, 2^24, 0, e + 1>>)
       ELSE IF e > 971 THEN Inf(s) ELSE <<"fin", s, hi, lo, e>>

\* The significand T plus one unit in the last place (up = 1) or not.
PackRounded(s, T, up, e) ==
  IF T[1] + up = Base THEN Pack(s, T[2] + 1, 0, e)
  ELSE Pack(s, T[2], T[1] + up, e)

\* W with its k lowest bits rounded off, ties to even; sticky says that the
\* exact value has bits below W.
RoundOff(s, W, k, e, sticky, T) ==
  PackRounded(s, T,
              IF BitW(W, k - 1) = 1
                   /\ (sticky \/ LostBits(W, k - 1) \/ T[1] % 2 = 1)
              THEN 1 ELSE 0,
              e + k)

\* Keep 53 bits of W, or fewer when the result is subnormal.
RoundAt(s, W, e, sticky, k) ==
  IF k <= 0 THEN Pack(s, ShiftLeftW(W, -k)[2], ShiftLeftW(W, -k)[1], e + k)
  ELSE RoundOff(s, W, k, e, sticky, ShiftRightW(W, k))

RoundBits(s, W, e, sticky, len) ==
  IF len = 0 THEN SignedZero(s)
  ELSE RoundAt(s, W, e, sticky,
               IF e + len - 53 < -1074 THEN -1074 - e ELSE len - 53)

\* The double nearest to s * W * 2^e.
Round(s, W, e, sticky) == RoundBits(s, W, e, sticky, BitLengthW(W))

FromIntBody(n) == Round(IF n < 0 THEN -1 ELSE 1,
                    <<Abs(n) % Base, Abs(n) \div Base, 0, 0>>, 0, FALSE)

FromInt(n) == Call("FromInt", <<n>>)

FNeg(x) == IF IsNaN(x) THEN NaN ELSE <<x[1], -x[2], x[3], x[4], x[5]>>

FAbs(x) == IF IsNaN(x) THEN NaN ELSE <<x[1], 1, x[3], x[4], x[5]>>

\* a + b for wide naturals, with the carry into each limb.
RECURSIVE AddW(_, _, _, _)
AddW(a, b, i, carry) ==
  IF i > 4 THEN <<>>
  ELSE <<(a[i] + b[i] + carry) % Base>>
         \o AddW(a, b, i + 1, (a[i] + b[i] + carry) \div Base)

\* a - b - borrow for wide naturals, a >= b + borrow.
RECURSIVE SubW(_, _, _, _)
SubW(a, b, i, borrow) ==
  IF i > 4 THEN <<>>
  ELSE <<(a[i] - b[i] - borrow) % Base>>
         \o SubW(a, b, i + 1, IF a[i] - b[i] - borrow < 0 THEN 1 ELSE 0)

\* a < b for wide naturals.
LessW(a, b) ==
  \E i \in 1..4 : a[i] < b[i] /\ \A j \in (i + 1)..4 : a[j] = b[j]

\* The sum of two aligned magnitudes with their signs.
AddAligned(sa, a, sb, b, e, sticky) ==
  IF sa = sb THEN Round(sa, AddW(a, b, 1, 0), e, sticky)
  ELSE IF LessW(a, b) THEN Round(sb, SubW(b, a, 1, 0), e, sticky)
  ELSE IF a = b THEN Zero
  ELSE Round(sa, SubW(a, b, 1, IF sticky THEN 1 ELSE 0), e, sticky)

\* big + small, the exponent of big not below that of small and d their
\* difference: big stands 56 bits up in the frame, small is moved to its
\* place and the bits it loses at the bottom are kept as the sticky bit.
AddOrdered(big, small, d) ==
  IF d <= 56
  THEN AddAligned(big[2], <<0, 0, big[4], big[3]>>, small[2],
                  ShiftLeftW(<<small[4], small[3], 0, 0>>, 56 - d),
                  big[5] - 56, FALSE)
  ELSE AddAligned(big[2], <<0, 0, big[4], big[3]>>, small[2],
                  ShiftRightW(<<small[4], small[3], 0, 0>>, d - 56),
                  big[5] - 56, LostBits(<<small[4], small[3], 0, 0>>, d - 56))

\* x + y
FAddBody(x, y) ==
  IF IsFinite(x) /\ IsFinite(y) THEN
    IF IsZero(x) THEN (IF IsZero(y) /\ x[2] # y[2] THEN Zero ELSE y)
    ELSE IF IsZero(y) THEN x
    ELSE IF x[5] >= y[5] THEN AddOrdered(x, y, x[5] - y[5])
    ELSE AddOrdered(y, x, y[5] - x[5])
  ELSE IF IsNaN(x) \/ IsNaN(y) THEN NaN
  ELSE IF IsFinite(x) THEN y
  ELSE IF IsFinite(y) THEN x
  ELSE IF x[2] = y[2] THEN x ELSE NaN

FAdd(x, y) == Call("FAdd", <<x, y>>)

FSub(x, y) == FAdd(x, FNeg(y))

\* The four 14-bit digits of a significand, lowest first.
Digits(x) == <<x[4] % 2^14, x[4] \div 2^14, x[3] % 2^14, x[3] \div 2^14>>

\* The column sums of the product of two digit strings.
Columns(a, b) ==
  <<a[1] * b[1],
    a[1] * b[2] + a[2] * b[1],
    a[1] * b[3] + a[2] * b[2] + a[3] * b[1],
    a[1] * b[4] + a[2] * b[3] + a[3] * b[2] + a[4] * b[1],
    a[2] * b[4] + a[3] * b[3] + a[4] * b[2],
    a[3] * b[4] + a[4] * b[3],
    a[4] * b[4],
    0>>

\* The digits of a string of column sums, carries propagated.
RECURSIVE Carry(_, _, _)
Carry(c, i, carry) ==
  IF i > Len(c) THEN <<>>
  ELSE <<(c[i] + carry) % 2^14>> \o Carry(c, i + 1, (c[i] + carry) \div 2^14)

\* Eight 14-bit digits as four limbs.
Limbs(d) == [i \in 1..4 |-> d[2 * i - 1] + d[2 * i] * 2^14]

\* x * y
FMulBody(x, y) ==
  IF IsFinite(x) /\ IsFinite(y) THEN
    Round(x[2] * y[2], Limbs(Carry(Columns(Digits(x), Digits(y)), 1, 0)),
          x[5] + y[5], FALSE)
  ELSE IF IsNaN(x) \/ IsNaN(y) THEN NaN
  ELSE IF IsZero(x) \/ IsZero(y) THEN NaN
  ELSE Inf(x[2] * y[2])

FMul(x, y) == Call("FMul", <<x, y>>)

\* A nonzero finite number with its significand moved up to 53 bits.
Normalized(x, len) ==
  <<"fin", x[2], ShiftLeftW(<<x[4], x[3], 0, 0>>, 53 - len)[2],
    ShiftLeftW(<<x[4], x[3], 0, 0>>, 53 - len)[1], x[5] - (53 - len)>>

Normal(x) ==
  IF x[3] >= 2^24 THEN x
  ELSE Normalized(x, BitLengthW(<<x[4], x[3], 0, 0>>))

\* The four 14-bit digits of 8 * (hi * 2^28 + lo), lowest first: a 53-bit
\* significand moved up to 56 bits.
Digits56(hi, lo) ==
  <<(8 * lo) % 2^14, ((8 * lo) % Base) \div 2^14,
    (8 * hi + lo \div 2^25) % 2^14, (8 * hi + lo \div 2^25) \div 2^14>>

\* a < b for digit strings of one length.
LessD(a, b) ==
  \E i \in 1..Len(a) : a[i] < b[i] /\ \A j \in (i + 1)..Len(a) : a[j] = b[j]

\* a - b for digit strings of one length, a >= b.
RECURSIVE SubD(_, _, _, _)
SubD(a, b, i, borrow) ==
  IF i > Len(a) THEN <<>>
  ELSE <<(a[i] - b[i] - borrow) % 2^14>>
         \o SubD(a, b, i + 1, IF a[i] - b[i] - borrow < 0 THEN 1 ELSE 0)

\* The digits of b times the digit q.
TimesDigit(b, q) ==
  Carry(<<b[1] * q, b[2] * q, b[3] * q, b[4] * q, 0>>, 1, 0)

\* One digit of long division (Knuth's algorithm D): R is the rest with a
\* digit brought down, P = b * q for the estimate q, which is the digit or
\* up to two more.  The result is <<digit, rest>>.
DivFixed(R, b, q, P) ==
  IF ~LessD(R, P) THEN <<q, SubD(R, P, 1, 0)>>
  ELSE <<q - 1, SubD(R, SubD(P, b \o <<0>>, 1, 0), 1, 0)>>

DivFix(R, b, q, P) ==
  IF ~LessD(R, P) THEN <<q, SubD(R, P, 1, 0)>>
  ELSE DivFixed(R, b, q - 1, SubD(P, b \o <<0>>, 1, 0))

DivEstimate(R, b, q) == DivFix(R, b, q, TimesDigit(b, q))

DivDigit(r, b) ==
  DivEstimate(<<0>> \o r, b,
              IF (r[4] * 2^14 + r[3]) \div b[4] > 2^14 - 1 THEN 2^14 - 1
              ELSE (r[4] * 2^14 + r[3]) \div b[4])

\* The state <<rest, digits of the quotient, highest first>> after one more
\* digit.
DivAppend(qs, d) == <<SubSeq(d[2], 1, 4), qs \o <<d[1]>>>>

DivStep(t, b) == DivAppend(t[2], DivDigit(t[1], b))

\* floor(a * 2^56 / b) for two 56-bit digit strings, and the rest.
DivDigits(a, b) ==
  DivStep(DivStep(DivStep(DivStep(
    IF LessD(a, b) THEN <<a, <<0>>>> ELSE <<SubD(a, b, 1, 0), <<1>>>>,
    b), b), b), b)

\* The quotient of two normalized numbers from 57 bits of a / b.
Quotient(s, t, e) ==
  Round(s, <<t[2][5] + t[2][4] * 2^14, t[2][3] + t[2][2] * 2^14, t[2][1], 0>>,
        e, t[1] # <<0, 0, 0, 0>>)

DivNormal(a, b) ==
  Quotient(a[2] * b[2], DivDigits(Digits56(a[3], a[4]), Digits56(b[3], b[4])),
           a[5] - b[5] - 56)

\* x / y, with the IEEE results of a division by zero.
FDivBody(x, y) ==
  IF IsFinite(x) /\ IsFinite(y) THEN
    IF IsZero(y) THEN (IF IsZero(x) THEN NaN ELSE Inf(x[2] * y[2]))
    ELSE IF IsZero(x) THEN SignedZero(x[2] * y[2])
    ELSE DivNormal(Normal(x), Normal(y))
  ELSE IF IsNaN(x) \/ IsNaN(y) THEN NaN
  ELSE IF IsFinite(y) THEN Inf(x[2] * y[2])
  ELSE IF IsFinite(x) THEN SignedZero(x[2] * y[2])
  ELSE NaN

FDiv(x, y) == Call("FDiv", <<x, y>>)

\* |x| < |y| for finite numbers.
LessMagnitude(x, y) ==
  IF IsZero(y) THEN FALSE
  ELSE IF IsZero(x) THEN TRUE
  ELSE IF x[5] # y[5] THEN x[5] < y[5]
  ELSE x[3] < y[3] \/ (x[3] = y[3] /\ x[4] < y[4])

\* x < y (false when either is NaN; -0 and 0 are equal).
FLt(x, y) ==
  IF IsNaN(x) \/ IsNaN(y) THEN FALSE
  ELSE IF ~IsFinite(x) THEN x[2] < 0 /\ ~(~IsFinite(y) /\ y[2] < 0)
  ELSE IF ~IsFinite(y) THEN y[2] > 0
  ELSE IF IsZero(x) /\ IsZero(y) THEN FALSE
  ELSE IF x[2] # y[2] THEN x[2] < y[2]
  ELSE IF x[2] > 0 THEN LessMagnitude(x, y) ELSE LessMagnitude(y, x)

FGt(x, y) == FLt(y, x)

\* x <= y (false when either is NaN).
FLe(x, y) == ~IsNaN(x) /\ ~IsNaN(y) /\ ~FLt(y, x)

FGe(x, y) == FLe(y, x)

\* x === y
FEq(x, y) == FLe(x, y) /\ FLe(y, x)

\* The decimal literal n / 10^d, e.g. Dec(1225, 3) for 1.225.
Dec(n, d) == FDiv(FromInt(n), FromInt(10^d))

\* The number m * 2^e for an integer m.
ScaledBody(m, e) == Round(IF m < 0 THEN -1 ELSE 1,
                      <<Abs(m) % Base, Abs(m) \div Base, 0, 0>>, e, FALSE)

Scaled(m, e) == Call("Scaled", <<m, e>>)

One == FromInt(1)

Half == Scaled(1, -1)

\* The integer part of x (towards zero) for |x| < 2^31.
ToInt(x) ==
  IF IsZero(x) \/ -x[5] >= 53 THEN 0
  ELSE IF -x[5] >= 28 THEN x[2] * (x[3] \div 2^(-x[5] - 28))
  ELSE x[2] * (x[3] * 2^(28 + x[5]) + x[4] \div 2^(-x[5]))

\* Whether |x| < 2^30.
FitsInt(x) == IsZero(x) \/ x[5] + 53 <= 30

---------------------------------------------------------------------------
(* The Math library and Number.prototype.toFixed                           *)

\* A JS number after rounding to a fixed number of decimals.
Num(n) == [kind |-> "num", v |-> n]

NumNaN == [kind |-> "NaN", v |-> 0]

NumInf(s) == [kind |-> IF s < 0 THEN "-Infinity" ELSE "Infinity", v |-> 0]

\* A rounded value whose count of units does not fit the integers of the
\* model (2^31 units or more).
NumLarge(s) == [kind |-> IF s < 0 THEN "-large" ELSE "large", v |-> 0]

\* Whether x has a bit of weight 1/2, and bits below it.
HalfBit(x) == -x[5] >= 1 /\ BitW(<<x[4], x[3], 0, 0>>, -x[5] - 1) = 1

BelowHalf(x) == -x[5] >= 2 /\ LostBits(<<x[4], x[3], 0, 0>>, -x[5] - 1)

\* Math.round(x): the integer nearest x, halves towards +Infinity.
MathRound(x) ==
  IF IsNaN(x) THEN NumNaN
  ELSE IF ~IsFinite(x) THEN NumInf(x[2])
  ELSE IF ~FitsInt(x) THEN NumLarge(x[2])
  ELSE IF -x[5] > 53 THEN Num(0)
  ELSE IF x[2] > 0 THEN Num(ToInt(x) + (IF HalfBit(x) THEN 1 ELSE 0))
  ELSE Num(ToInt(x) - (IF HalfBit(x) /\ BelowHalf(x) THEN 1 ELSE 0))

\* The digits of a digit string times a small factor.
TimesSmall(a, f) == <<a[1] * f, a[2] * f, a[3] * f, a[4] * f, 0, 0, 0, 0>>

\* W / 2^k rounded to the nearest integer, halves up: a count of units.
CountOf(s, T, up) ==
  IF T[4] # 0 \/ T[3] # 0 \/ T[2] >= 8 \/ T[2] * Base + T[1] > 2147483646
  THEN NumLarge(s)
  ELSE Num(s * (T[2] * Base + T[1] + up))

Count(s, W, k) ==
  CountOf(s, ShiftRightW(W, k), IF k >= 1 THEN BitW(W, k - 1) ELSE 0)

\* parseFloat(x.toFixed(d)): x rounded to d decimals, halves away from zero,
\* held as the integer x * 10^d.
ToFixed(x, d) ==
  IF IsNaN(x) THEN NumNaN
  ELSE IF ~IsFinite(x) THEN NumInf(x[2])
  ELSE IF IsZero(x) THEN Num(0)
  ELSE IF x[5] >= 0 THEN NumLarge(x[2])
  ELSE Count(x[2], Limbs(Carry(TimesSmall(Digits(x), 10^d), 1, 0)), -x[5])

MathMax(x, y) ==
  IF IsNaN(x) \/ IsNaN(y) THEN NaN
  ELSE IF IsZero(x) /\ IsZero(y) THEN (IF x[2] > 0 THEN x ELSE y)
  ELSE IF FLt(x, y) THEN y ELSE x

MathMin(x, y) ==
  IF IsNaN(x) \/ IsNaN(y) THEN NaN
  ELSE IF IsZero(x) /\ IsZero(y) THEN (IF x[2] < 0 THEN x ELSE y)
  ELSE IF FLt(y, x) THEN y ELSE x

MathAbs(x) == FAbs(x)

\* Math.pow(x, 2): the square of x, correctly rounded.
MathPow2(x) == FMul(x, x)

\* The square of the 54-bit number 2 * (hi * 2^28 + lo) + d, d = 1 or -1,
\* as limbs.
OddDigits(hi, lo) ==
  <<lo % 2^14, lo \div 2^14, hi % 2^14, hi \div 2^14>>

Twice(hi, lo, d) ==
  OddDigits(2 * hi + (2 * lo + d) \div Base, (2 * lo + d) % Base)

Square(a) == Limbs(Carry(Columns(a, a), 1, 0))

\* Whether the significand <<hi, lo>> is the root of X * 2^52 rounded to
\* nearest: (2Y - 1)^2 < 4 * X * 2^52 < (2Y + 1)^2, X2 = X * 2^54.
IsRoot(hi, lo, X2) ==
  /\ LessW(Square(Twice(hi, lo, -1)), X2)
  /\ LessW(X2, Square(Twice(hi, lo, 1)))

\* The significand <<hi, lo>> plus a small d.
Nudge(hi, lo, d) == <<hi + (lo + d) \div Base, (lo + d) % Base>>

\* A first guess of the root of m, 1 <= m < 4, from its 14 highest bits t.
RootGuess(t) ==
  Scaled(2 * (CHOOSE s \in 64..127 : s * s <= t /\ t < (s + 1) * (s + 1)) + 1,
         -7)

\* One step of Newton's iteration for the root of m.
Newton(m, y) == FMul(Half, FAdd(y, FDiv(m, y)))

\* The significand of a number of [1, 2] at the exponent -52.
AtUnit(y) == IF y[5] = -52 THEN <<y[3], y[4]>> ELSE <<2 * y[3], 0>>

\* The root of X * 2^e, e even and 2^52 <= X < 2^54, from an approximate
\* root y of m = X * 2^-52: the neighbour of y that is the rounded root.
RootNear(X2, Y, e) ==
  Pack(1,
       Nudge(Y[1], Y[2], CHOOSE d \in -2..2 :
               IsRoot(Nudge(Y[1], Y[2], d)[1], Nudge(Y[1], Y[2], d)[2], X2))[1],
       Nudge(Y[1], Y[2], CHOOSE d \in -2..2 :
               IsRoot(Nudge(Y[1], Y[2], d)[1], Nudge(Y[1], Y[2], d)[2], X2))[2],
       e \div 2 - 26)

RootOf(m, hi, lo, e) ==
  RootNear(ShiftLeftW(<<lo, hi, 0, 0>>, 54),
           AtUnit(Newton(m, Newton(m, Newton(m, RootGuess(hi \div 2^12))))),
           e)

\* The root of a normalized number.
SqrtNormal(x) ==
  IF x[5] % 2 = 0
  THEN RootOf(<<"fin", 1, x[3], x[4], -52>>, x[3], x[4], x[5])
  ELSE RootOf(<<"fin", 1, x[3], x[4], -51>>,
              2 * x[3] + (2 * x[4]) \div Base, (2 * x[4]) % Base, x[5] - 1)

\* Math.sqrt(x)
MathSqrtBody(x) ==
  IF IsNaN(x) THEN NaN
  ELSE IF IsZero(x) THEN x
  ELSE IF x[2] < 0 THEN NaN
  ELSE IF ~IsFinite(x) THEN x
  ELSE SqrtNormal(Normal(x))

MathSqrt(x) == Call("MathSqrt", <<x>>)

---------------------------------------------------------------------------
(* Math.sin, Math.cos and Math.atan2 as the JavaScript engine computes     *)
(* them: the fdlibm routines (V8, src/base/ieee754.cc) in double           *)
(* arithmetic, operation by operation.                                     *)

\* The value e, computed once v has been computed: the statements of a
\* routine run in their order.
Then(v, e) == CASE v = v -> e

\* x without its fraction, for a finite x.
Truncated(x) ==
  IF IsZero(x) \/ x[5] >= 0 THEN x
  ELSE IF -x[5] >= 53 THEN SignedZero(x[2])
  ELSE IF -x[5] >= 28
  THEN <<"fin", x[2], (x[3] \div 2^(-x[5] - 28)) * 2^(-x[5] - 28), 0, x[5]>>
  ELSE <<"fin", x[2], x[3], (x[4] \div 2^(-x[5])) * 2^(-x[5]), x[5]>>

\* The high word of |x| (the upper 32 bits of the double without the sign)
\* for a finite x; 2^20 * 2047 for an infinity.
HighWord(x) ==
  IF ~IsFinite(x) THEN 2047 * 2^20
  ELSE IF x[3] >= 2^24 THEN (x[5] + 1075) * 2^20 + (x[3] - 2^24) \div 16
  ELSE x[3] \div 16

\* The biased exponent of x.
ExponentField(x) == HighWord(x) \div 2^20

\* The double with the high word h and a low word of zeros, h normal.
FromHighWord(h) == Scaled(2^20 + (h % 2^20), h \div 2^20 - 1043)

\* S1 .. S6 of __kernel_sin
SinCoefficients ==
  <<<<"fin", -1, 22369621, 89478473, -55>>,
    <<"fin", 1, 17895697, 17889446, -59>>,
    <<"fin", -1, 27269633, 163668437, -65>>,
    <<"fin", 1, 24239669, 129105533, -71>>,
    <<"fin", -1, 28204648, 170630379, -78>>,
    <<"fin", 1, 22909861, 181392764, -85>>>>

\* The coefficients of the polynomial of __kernel_cos
CosCoefficients ==
  <<<<"fin", 1, 22369621, 89478476, -57>>,
    <<"fin", -1, 23860929, 113332599, -62>>,
    <<"fin", 1, 27269633, 164304272, -68>>,
    <<"fin", -1, 19391736, 10244781, -74>>,
    <<"fin", 1, 18803179, 229945796, -81>>,
    <<"fin", -1, 26193563, 243808468, -89>>>>

\* sin(x + y) for |x| <= pi/4, y the tail of x (iy = 0 says there is none).
KernelSinSum(x, y, iy, z, v, r, S) ==
  IF iy = 0 THEN FAdd(x, FMul(v, FAdd(S[1], FMul(z, r))))
  ELSE FSub(x, FSub(FSub(FMul(z, FSub(FMul(Half, y), FMul(v, r))), y),
                    FMul(v, S[1])))

KernelSinPoly(x, y, iy, z, S) ==
  KernelSinSum(x, y, iy, z, FMul(z, x),
               FAdd(S[2], FMul(z, FAdd(S[3], FMul(z, FAdd(S[4],
                 FMul(z, FAdd(S[5], FMul(z, S[6])))))))),
               S)

KernelSin(x, y, iy) ==
  IF HighWord(x) < 1044381696 THEN x
  ELSE KernelSinPoly(x, y, iy, FMul(x, x), SinCoefficients)

\* cos(x + y) for |x| <= pi/4.
KernelCosSplit(z, r, xy, qx) ==
  FSub(FSub(One, qx), FSub(FSub(FMul(Half, z), qx), FSub(FMul(z, r), xy)))

KernelCosSum(x, y, ix, z, r) ==
  IF ix < 1070805811
  THEN FSub(One, FSub(FMul(Half, z), FSub(FMul(z, r), FMul(x, y))))
  ELSE KernelCosSplit(z, r, FMul(x, y),
                      IF ix > 1072234496 THEN Scaled(9, -5)
                      ELSE FromHighWord(ix - 2097152))

KernelCosPoly(x, y, ix, z, C) ==
  KernelCosSum(x, y, ix, z,
               FMul(z, FAdd(C[1], FMul(z, FAdd(C[2], FMul(z, FAdd(C[3],
                 FMul(z, FAdd(C[4], FMul(z, FAdd(C[5], FMul(z, C[6]))))))))))))

KernelCos(x, y) ==
  IF HighWord(x) < 1044381696 THEN One
  ELSE KernelCosPoly(x, y, HighWord(x), FMul(x, x), CosCoefficients)

\* 2/pi and the pieces of pi/2 of __ieee754_rem_pio2: pio2_1 holds the first
\* 33 bits of pi/2 and pio2_1t the rest, and so on.
invpio2 == <<"fin", 1, 21361414, 231327875, -53>>

pio2_1 == <<"fin", 1, 26353589, 71303168, -52>>

pio2_1t == <<"fin", 1, 17516049, 174220081, -86>>

pio2_2 == <<"fin", 1, 17516049, 174063616, -86>>

pio2_2t == <<"fin", 1, 20027554, 235106419, -121>>

pio2_3 == <<"fin", 1, 20027554, 234881024, -121>>

pio2_3t == <<"fin", 1, 28850594, 86002113, -156>>

\* The high words of n * pi/2, n = 1 .. 32.
npio2_hw ==
  <<1073291771, 1074340347, 1074977148, 1075388923,
    1075800698, 1076025724, 1076231611, 1076437499,
    1076643386, 1076849274, 1076971356, 1077074300,
    1077177244, 1077280187, 1077383131, 1077486075,
    1077589019, 1077691962, 1077794906, 1077897850,
    1077968460, 1078019932, 1078071404, 1078122876,
    1078174348, 1078225820, 1078277292, 1078328763,
    1078380235, 1078431707, 1078483179, 1078534651>>

\* The bits of 2/pi after the binary point, 24 to an entry.
two_over_pi ==
  <<10680707, 7228996, 1387004, 2578385, 16069853, 12639074,
    9804092, 4427841, 16666979, 11263675, 12935607, 2387514,
    4345298, 14681673, 3074569, 13734428, 16653803, 1880361,
    10960616, 8533493, 3062596, 8710556, 7349940, 6258241,
    3772886, 3769171, 3798172, 8675211, 12450088, 3874808,
    9961438, 366607, 15675153, 9132554, 7151469, 3571407,
    2607881, 12013382, 4155038, 6285869, 7677882, 13102053,
    15825725, 473591, 9065106, 15363067, 6271263, 9264392,
    5636912, 4652155, 7056368, 13614112, 10155062, 1944035,
    9527646, 15080200, 6658437, 6231200, 6832269, 16767104,
    5075751, 3212806, 1398474, 7579849, 6349435, 12618859>>

\* pi/2 in pieces of 24 bits.
PIo2 ==
  <<<<"fin", 1, 26353588, 0, -52>>,
    <<"fin", 1, 21250768, 0, -76>>,
    <<"fin", 1, 25454984, 0, -100>>,
    <<"fin", 1, 26002710, 0, -124>>,
    <<"fin", 1, 16889912, 0, -148>>,
    <<"fin", 1, 27415044, 0, -172>>,
    <<"fin", 1, 20455976, 0, -197>>,
    <<"fin", 1, 27210192, 0, -221>>>>

two24 == Scaled(1, 24)

twon24 == Scaled(1, -24)

\* The result <<n, y0, y1>> of a reduction: x = n * pi/2 + y0 + y1.
RemFinish(n, r, tail, y0) == <<n, y0, FSub(FSub(r, y0), tail)>>

Negated(t) == <<-t[1], FNeg(t[2]), FNeg(t[3])>>

\* |x| < 3pi/4: one subtraction of pi/2, with the second piece of pi/2 when
\* x is close to it.
RemOneTail(n, z, t) == RemFinish(n, z, t, FSub(z, t))

RemOne(ix, z) ==
  IF ix # 1073291771 THEN RemOneTail(1, z, pio2_1t)
  ELSE RemOneTail(1, FSub(z, pio2_2), pio2_2t)

\* r = t - fn * p and the tail of the next round of the reduction.
RefineTail(fn, t, pt, tail, r) ==
  <<r, FSub(FMul(fn, pt), FSub(FSub(t, r), tail))>>

RefineStep(fn, t, pt, tail) == RefineTail(fn, t, pt, tail, FSub(t, tail))

Refine(fn, t, p, pt) == RefineStep(fn, t, pt, FMul(fn, p))

RemThird(n, rw) == RemFinish(n, rw[1], rw[2], FSub(rw[1], rw[2]))

RemSecondCheck(j, n, fn, rw, y0) ==
  IF j - ExponentField(y0) > 49
  THEN RemThird(n, Refine(fn, rw[1], pio2_3, pio2_3t))
  ELSE RemFinish(n, rw[1], rw[2], y0)

RemSecond(j, n, fn, rw) == RemSecondCheck(j, n, fn, rw, FSub(rw[1], rw[2]))

RemFirstCheck(ix, n, fn, r, tail, y0) ==
  IF n < 32 /\ ix # npio2_hw[n] THEN RemFinish(n, r, tail, y0)
  ELSE IF ix \div 2^20 - ExponentField(y0) > 16
  THEN RemSecond(ix \div 2^20, n, fn, Refine(fn, r, pio2_2, pio2_2t))
  ELSE RemFinish(n, r, tail, y0)

RemFirst(ix, n, fn, r, tail) == RemFirstCheck(ix, n, fn, r, tail, FSub(r, tail))

\* |x| <= 2^19 * pi/2: n = round(|x| * 2/pi), up to three rounds.
RemMediumOf(t, ix, n, fn) ==
  RemFirst(ix, n, fn, FSub(t, FMul(fn, pio2_1)), FMul(fn, pio2_1t))

RemMediumN(t, ix, n) == RemMediumOf(t, ix, n, FromInt(n))

RemMedium(t, ix) == RemMediumN(t, ix, ToInt(FAdd(FMul(t, invpio2), Half)))

\* __kernel_rem_pio2 for three 24-bit pieces tx of the argument, with
\* x = (tx[1] + tx[2] / 2^24 + tx[3] / 2^48) * 2^e0; jx + 1 of them are in
\* use, jv is the first piece of 2/pi that matters and q0 the exponent of
\* the last piece of the product held in iq.
jk == 4

ipio2(k) == IF k < 0 THEN Zero ELSE FromInt(two_over_pi[k + 1])

\* q[i] = x[0] * f[jx + i] + .. + x[jx] * f[i]
RECURSIVE QSum(_, _, _, _, _)
QSum(tx, jx, k, j, fw) ==
  IF j > jx THEN fw
  ELSE QSum(tx, jx, k, j + 1, FAdd(fw, FMul(FromInt(tx[j + 1]), ipio2(k - j))))

QTerm(tx, jx, jv, i) == QSum(tx, jx, jv + i, 0, Zero)

\* The distillation of q[0 .. jz] into the integers iq[0 .. jz - 1] of 24
\* bits each (lowest first) and the rest z: <<z, iq>>.
DistillStep(tx, jx, jv, j, z, iq, fw) ==
  <<FAdd(QTerm(tx, jx, jv, j - 1), fw),
    Append(iq, ToInt(FSub(z, FMul(two24, fw))))>>

RECURSIVE Distill(_, _, _, _, _)
Distill(tx, jx, jv, jz, d) ==
  IF Len(d[2]) = jz THEN d
  ELSE Distill(tx, jx, jv, jz,
               DistillStep(tx, jx, jv, jz - Len(d[2]), d[1], d[2],
                           FromInt(ToInt(FMul(twon24, d[1])))))

\* z * 2^q0 without its multiples of 8.
ModEight(z) == FSub(z, FMul(FromInt(8), Truncated(FMul(z, Scaled(1, -3)))))

\* The state of the kernel after the distillation: the integer part n, the
\* fraction z, the pieces iq and ih, which says whether the fraction is at
\* least one half.
SplitInteger(z, iq, q0, jz, n) ==
  IF q0 > 0
  THEN <<n + iq[jz] \div 2^(24 - q0), FSub(z, FromInt(n)),
         [iq EXCEPT ![jz] = iq[jz] % 2^(24 - q0)],
         (iq[jz] % 2^(24 - q0)) \div 2^(23 - q0)>>
  ELSE <<n, FSub(z, FromInt(n)), iq,
         IF q0 = 0 THEN iq[jz] \div 2^23
         ELSE IF FGe(FSub(z, FromInt(n)), Half) THEN 2 ELSE 0>>

Split(z, iq, q0, jz) == SplitInteger(z, iq, q0, jz, ToInt(z))

\* The first piece of iq that is not zero, jz + 1 when there is none.
FirstPiece(iq, jz) ==
  IF \A i \in 1..jz : iq[i] = 0 THEN jz + 1
  ELSE CHOOSE i \in 1..jz : iq[i] # 0 /\ \A j \in 1..(i - 1) : iq[j] = 0

\* 1 - fraction: the pieces complemented.
Complement(iq, jz, q0, first) ==
  [i \in 1..jz |->
     IF i < first THEN iq[i]
     ELSE (IF i = first THEN 2^24 - iq[i] ELSE 2^24 - 1 - iq[i])
            % (IF i = jz /\ q0 > 0 THEN 2^(24 - q0) ELSE 2^24)]

ComplementRest(z, ih, q0, carry) ==
  IF ih # 2 THEN z
  ELSE IF carry THEN FSub(FSub(One, z), Scaled(1, q0))
  ELSE FSub(One, z)

Complemented(s, jz, q0, first) ==
  IF s[4] > 0
  THEN <<s[1] + 1, ComplementRest(s[2], s[4], q0, first <= jz),
         Complement(s[3], jz, q0, first), s[4]>>
  ELSE s

\* The number of pieces to add when the fraction came out as zero.
RECURSIVE MorePieces(_, _)
MorePieces(iq, k) ==
  IF jk >= k /\ iq[jk - k + 1] = 0 THEN MorePieces(iq, k + 1) ELSE k

NeedsMore(s, jz) == IsZero(s[2]) /\ \A i \in (jk + 1)..jz : s[3][i] = 0

\* The pieces of the fraction with the rest z chopped into them.
Chopped(z, iq, jz, q0) ==
  IF FGe(z, two24)
  THEN <<Append(Append(iq, ToInt(FSub(z, FMul(two24,
                                   FromInt(ToInt(FMul(twon24, z))))))),
                ToInt(FMul(twon24, z))),
         jz + 1, q0 + 24>>
  ELSE <<Append(iq, ToInt(z)), jz, q0>>

RECURSIVE Trimmed(_, _, _)
Trimmed(iq, jz, q0) ==
  IF iq[jz + 1] = 0 THEN Trimmed(iq, jz - 1, q0 - 24) ELSE <<iq, jz, q0>>

Pieces(s, jz, q0) ==
  IF IsZero(s[2]) THEN Trimmed(s[3], jz - 1, q0 - 24)
  ELSE Chopped(FMul(s[2], Scaled(1, -q0)), s[3], jz, q0)

\* fq[jz - i] = PIo2[0] * q[i] + PIo2[1] * q[i + 1] + ..
RECURSIVE FqSum(_, _, _, _, _, _)
FqSum(iq, jz, q0, i, k, fw) ==
  IF k > jk \/ k > jz - i THEN fw
  ELSE FqSum(iq, jz, q0, i, k + 1,
             FAdd(fw, FMul(PIo2[k + 1],
                           Scaled(iq[i + k + 1], q0 - 24 * (jz - i - k)))))

Fq(iq, jz, q0) == [m \in 0..jz |-> FqSum(iq, jz, q0, jz - m, 0, Zero)]

\* fq[i] + fq[i - 1] + .. + fq[lo] on top of fw.
RECURSIVE SumDown(_, _, _, _)
SumDown(fq, i, lo, fw) ==
  IF i < lo THEN fw ELSE SumDown(fq, i - 1, lo, FAdd(fw, fq[i]))

RECURSIVE SumUp(_, _, _, _)
SumUp(fq, i, hi, fw) ==
  IF i > hi THEN fw ELSE SumUp(fq, i + 1, hi, FAdd(fw, fq[i]))

Signed(ih, x) == IF ih = 0 THEN x ELSE FNeg(x)

Compressed(n, ih, fq, jz, fw) ==
  <<n % 8, Signed(ih, fw), Signed(ih, SumUp(fq, 1, jz, FSub(fq[0], fw)))>>

KernelResult(n, ih, fq, jz) ==
  Then(fq, Compressed(n, ih, fq, jz, SumDown(fq, jz, 0, Zero)))

KernelFinish(n, ih, p) ==
  Then(p, KernelResult(n, ih, Fq(p[1], p[2], p[3]), p[2]))

RECURSIVE KernelRemPio2(_, _, _, _, _)
KernelCheck(tx, jx, jv, q0, jz, s) ==
  IF NeedsMore(s, jz)
  THEN KernelRemPio2(tx, jx, jv, q0, jz + MorePieces(s[3], 1))
  ELSE KernelFinish(s[1], s[4], Pieces(s, jz, q0))

KernelSplit(tx, jx, jv, q0, jz, s) ==
  Then(s, KernelCheck(tx, jx, jv, q0, jz,
                      Complemented(s, jz, q0, FirstPiece(s[3], jz))))

KernelDistilled(tx, jx, jv, q0, jz, d) ==
  Then(d, KernelSplit(tx, jx, jv, q0, jz,
                      Split(ModEight(FMul(d[1], Scaled(1, q0))), d[2], q0,
                            jz)))

KernelRemPio2(tx, jx, jv, q0, jz) ==
  KernelDistilled(tx, jx, jv, q0, jz,
                  Distill(tx, jx, jv, jz, <<QTerm(tx, jx, jv, jz), <<>>>>))

\* The larger arguments: |x| / 2^e0 in three pieces of 24 bits.
RemLargeOf(tx, e0, jx, jv) ==
  KernelRemPio2(tx, jx, jv, e0 - 24 * (jv + 1), jk)

RemLargePieces(tx, e0) ==
  RemLargeOf(tx, e0, IF tx[3] # 0 THEN 2 ELSE IF tx[2] # 0 THEN 1 ELSE 0,
             IF e0 < 3 THEN 0 ELSE (e0 - 3) \div 24)

RemLarge(x) ==
  RemLargePieces(<<x[3] \div 2, ((x[3] % 2) * Base + x[4]) \div 32,
                   (x[4] % 32) * 2^19>>,
                 x[5] + 29)

\* __ieee754_rem_pio2 for a finite x: <<n, y0, y1>> with
\* x = n * pi/2 + y0 + y1 and |y0 + y1| <= pi/4.
RemPositive(t, ix) ==
  IF ix < 1073928572 THEN RemOne(ix, FSub(t, pio2_1))
  ELSE IF ix <= 1094263291 THEN RemMedium(t, ix)
  ELSE RemLarge(t)

RemPio2(x) ==
  IF HighWord(x) <= 1072243195 THEN <<0, x, Zero>>
  ELSE IF x[2] < 0 THEN Negated(RemPositive(FAbs(x), HighWord(x)))
  ELSE RemPositive(x, HighWord(x))

SinOf(t) ==
  CASE t[1] % 4 = 0 -> KernelSin(t[2], t[3], 1)
    [] t[1] % 4 = 1 -> KernelCos(t[2], t[3])
    [] t[1] % 4 = 2 -> FNeg(KernelSin(t[2], t[3], 1))
    [] OTHER -> FNeg(KernelCos(t[2], t[3]))

\* Math.sin(x)
MathSinBody(x) ==
  IF ~IsFinite(x) THEN NaN
  ELSE IF HighWord(x) <= 1072243195 THEN KernelSin(x, Zero, 0)
  ELSE SinOf(RemPio2(x))

MathSin(x) == Call("MathSin", <<x>>)

CosOf(t) ==
  CASE t[1] % 4 = 0 -> KernelCos(t[2], t[3])
    [] t[1] % 4 = 1 -> FNeg(KernelSin(t[2], t[3], 1))
    [] t[1] % 4 = 2 -> FNeg(KernelCos(t[2], t[3]))
    [] OTHER -> KernelSin(t[2], t[3], 1)

\* Math.cos(x)
MathCosBody(x) ==
  IF ~IsFinite(x) THEN NaN
  ELSE IF HighWord(x) <= 1072243195 THEN KernelCos(x, Zero)
  ELSE CosOf(RemPio2(x))

MathCos(x) == Call("MathCos", <<x>>)

\* Math.PI, its half and quarter, and the tail of pi below the double.
MathPI == <<"fin", 1, 26353589, 71576856, -51>>

pi_o_2 == <<"fin", 1, 26353589, 71576856, -52>>

pi_o_4 == <<"fin", 1, 26353589, 71576856, -53>>

pi_lo == <<"fin", 1, 18506339, 51665927, -105>>

\* atan(0.5), atan(1), atan(1.5) and atan(inf), each in two pieces.
atanhi ==
  <<<<"fin", 1, 31114864, 90291023, -54>>,
    <<"fin", 1, 26353589, 71576856, -53>>,
    <<"fin", 1, 32977085, 42071707, -53>>,
    <<"fin", 1, 26353589, 71576856, -52>>>>

atanlo ==
  <<<<"fin", 1, 27441138, 36660706, -108>>,
    <<"fin", 1, 18506339, 51665927, -107>>,
    <<"fin", 1, 16808071, 183552957, -108>>,
    <<"fin", 1, 18506339, 51665927, -106>>>>

\* The coefficients aT[0] .. aT[10] of the atan polynomial.
aT ==
  <<<<"fin", 1, 22369621, 89478413, -54>>,
    <<"fin", -1, 26843545, 161016772, -55>>,
    <<"fin", 1, 19173961, 33588223, -55>>,
    <<"fin", -1, 29826159, 237180529, -56>>,
    <<"fin", 1, 24403164, 88875118, -56>>,
    <<"fin", -1, 20647722, 259299949, -56>>,
    <<"fin", 1, 17880682, 13647185, -56>>,
    <<"fin", -1, 31318741, 48168346, -57>>,
    <<"fin", 1, 26719410, 74845675, -57>>,
    <<"fin", -1, 19612738, 208301103, -57>>,
    <<"fin", 1, 17486766, 52615697, -58>>>>

\* atan(x) from the reduced argument t and the range id of x (0 for the
\* arguments below 7/16, which are not reduced).
AtanResult(t, id, p) ==
  IF id = 0 THEN FSub(t, FMul(t, p))
  ELSE FSub(atanhi[id], FSub(FSub(FMul(t, p), atanlo[id]), t))

AtanSum(t, id, z, zz) ==
  AtanResult(t, id,
    FAdd(FMul(z, FAdd(aT[1], FMul(zz, FAdd(aT[3], FMul(zz, FAdd(aT[5],
           FMul(zz, FAdd(aT[7], FMul(zz, FAdd(aT[9], FMul(zz, aT[11]))))))))))),
         FMul(zz, FAdd(aT[2], FMul(zz, FAdd(aT[4], FMul(zz, FAdd(aT[6],
           FMul(zz, FAdd(aT[8], FMul(zz, aT[10])))))))))))

AtanSquare(t, id, z) == AtanSum(t, id, z, FMul(z, z))

AtanPoly(t, id) == AtanSquare(t, id, FMul(t, t))

\* atan(x) for x >= 7/16.
AtanReduced(x, ix) ==
  IF ix < 1072889856
  THEN (IF ix < 1072037888
        THEN AtanPoly(FDiv(FSub(FMul(FromInt(2), x), One),
                           FAdd(FromInt(2), x)), 1)
        ELSE AtanPoly(FDiv(FSub(x, One), FAdd(x, One)), 2))
  ELSE (IF ix < 1073971200
        THEN AtanPoly(FDiv(FSub(x, Scaled(3, -1)),
                           FAdd(One, FMul(Scaled(3, -1), x))), 3)
        ELSE AtanPoly(FDiv(FromInt(-1), x), 4))

WithSign(s, z) == IF s < 0 THEN FNeg(z) ELSE z

\* atan(x)
MathAtan(x) ==
  IF IsNaN(x) THEN NaN
  ELSE IF HighWord(x) >= 1141899264
  THEN WithSign(x[2], FAdd(atanhi[4], atanlo[4]))
  ELSE IF HighWord(x) < 1071382528
  THEN (IF HighWord(x) < 1042284544 THEN x ELSE AtanPoly(x, 0))
  ELSE WithSign(x[2], AtanReduced(FAbs(x), HighWord(x)))

\* The angle of the quadrant m: bit 0 is the sign of y, bit 1 that of x.
AtanQuadrant(m, z) ==
  CASE m = 0 -> z
    [] m = 1 -> FNeg(z)
    [] m = 2 -> FSub(MathPI, FSub(z, pi_lo))
    [] OTHER -> FSub(FSub(z, pi_lo), MathPI)

AtanRatio(y, x, m, k) ==
  IF k > 60 THEN AtanQuadrant(m % 2, FAdd(pi_o_2, FMul(Half, pi_lo)))
  ELSE IF x[2] < 0 /\ k < -60 THEN AtanQuadrant(m, Zero)
  ELSE AtanQuadrant(m, MathAtan(FAbs(FDiv(y, x))))

AtanSpecial(m, a, b) ==
  CASE m = 0 -> a
    [] m = 1 -> FNeg(a)
    [] m = 2 -> b
    [] OTHER -> FNeg(b)

AtanCases(y, x, m) ==
  IF IsZero(y) THEN AtanSpecial(m, Zero, MathPI)
  ELSE IF IsZero(x) THEN WithSign(y[2], pi_o_2)
  ELSE IF ~IsFinite(x)
  THEN (IF ~IsFinite(y)
        THEN AtanSpecial(m, pi_o_4, FMul(FromInt(3), pi_o_4))
        ELSE AtanSpecial(m, Zero, MathPI))
  ELSE IF ~IsFinite(y) THEN WithSign(y[2], pi_o_2)
  ELSE AtanRatio(y, x, m, (HighWord(y) - HighWord(x)) \div 2^20)

\* Math.atan2(y, x)
MathAtan2Body(y, x) ==
  IF IsNaN(x) \/ IsNaN(y) THEN NaN
  ELSE IF x = One THEN MathAtan(y)
  ELSE AtanCases(y, x,
                 (IF y[2] < 0 THEN 1 ELSE 0) + (IF x[2] < 0 THEN 2 ELSE 0))

MathAtan2(y, x) == Call("MathAtan2", <<y, x>>)

---------------------------------------------------------------------------
(* calculatePhysics (src/services/physicsEngine.ts, lines 9-234)           *)

\* A DesignParams field, held in thousandths, as a number.
Field(n) == Dec(n, 3)

airDensity == Dec(1225, 3)

bladeCount == 2

kinematicViscosity == Dec(148, 7)

peakAlpha == FromInt(15)

peakTSR == Dec(85, 1)

windmillTSR == Dec(35, 1)

maxCt == Dec(13, 1)

\* Math.PI / 180
RadPerDeg == FDiv(MathPI, FromInt(180))

\* 180 / Math.PI
DegPerRad == FDiv(FromInt(180), MathPI)

---------------------------------------------------------------------------
(* Faulty variants.  Each is a definition of the model below with one      *)
(* fault; a property of calculatePhysics stated further down is expected   *)
(* to fail when the variant stands in for the original.                    *)

\* RotorTiltOf with a default of 10 degrees.
RotorTiltDefaultTen(p) ==
  IF "rotorTilt" \in DOMAIN p THEN Field(p.rotorTilt) ELSE FromInt(10)

\* EffectiveAlphaDeg without its two clamps.
AlphaUnclamped(lineAngle, rotorTilt) ==
  FAdd(FSub(FromInt(90), lineAngle), rotorTilt)

\* EffectiveAlphaDeg measured from the ground instead of from the vertical.
AlphaFromLineAngle(lineAngle, rotorTilt) ==
  LET a == FAdd(lineAngle, rotorTilt)
      b == IF FLt(a, FromInt(-90)) THEN FromInt(-90) ELSE a
  IN  IF FGt(b, FromInt(90)) THEN FromInt(90) ELSE b

\* CurveTipSpeedRatio with the weights of the decay blend exchanged.
CurveBlendSwapped(effectiveAlphaDeg) ==
  IF FLe(effectiveAlphaDeg, Dec(15, 1)) THEN Zero
  ELSE IF FLt(effectiveAlphaDeg, peakAlpha)
       THEN FMul(FDiv(effectiveAlphaDeg, peakAlpha), peakTSR)
       ELSE LET t == FDiv(FSub(effectiveAlphaDeg, peakAlpha),
                          FSub(FromInt(90), peakAlpha))
            IN  FAdd(FMul(peakTSR, t), FMul(windmillTSR, FSub(One, t)))

\* IsSpinning taking the blade-element branch at every rpm >= 0.
RegimeSwitchOff(rpm) == FGe(rpm, Zero)

\* StationaryDrag without the square of the wind speed.
StationaryDragNoWind(windSpeed, bladeArea, alphaRad) ==
  FMul(FMul(FMul(FMul(Dec(5, 1), airDensity), bladeArea), Dec(12, 1)),
       MathSin(alphaRad))

\* GeneratedThrust dividing by the cosine of the tilt.
ThrustOverCosine(totalRotorThrust, rotorTilt) ==
  FDiv(totalRotorThrust, MathCos(FMul(rotorTilt, RadPerDeg)))

\* StabilityScore without the floor at 0.
StabilityScoreUnfloored(expectedTipSpeedRatio, rotorTilt) ==
  MathMin(FromInt(100),
    FSub(FSub(FromInt(100), FMul(expectedTipSpeedRatio, FromInt(3))),
         FMul(MathAbs(rotorTilt), FromInt(2))))

\* AnchorTotal subtracting the second force's vertical component.
AnchorTotalSubtracting(f, g) == <<FAdd(f[1], g[1]), FSub(f[2], g[2])>>

\* CurveTipSpeedRatio with the ramp starting at the edge of the dead zone.
CurveRampFromDeadZone(effectiveAlphaDeg) ==
  IF FLe(effectiveAlphaDeg, Dec(15, 1)) THEN Zero
  ELSE IF FLt(effectiveAlphaDeg, peakAlpha)
       THEN FMul(FDiv(FSub(effectiveAlphaDeg, Dec(15, 1)),
                      FSub(peakAlpha, Dec(15, 1))), peakTSR)
       ELSE LET t == FDiv(FSub(effectiveAlphaDeg, peakAlpha),
                          FSub(FromInt(90), peakAlpha))
            IN  FAdd(FMul(peakTSR, FSub(One, t)), FMul(windmillTSR, t))

\* InertiaDamping applied at every wind speed.
InertiaDampingAlways(tsr, windSpeed, rotorMass) ==
  LET minWindToSpin == FAdd(FMul(rotorMass, Dec(5, 1)), One)
  IN  FMul(tsr, MathMax(Zero, FDiv(windSpeed, minWindToSpin)))

\* IsSpinning as "not below 10", which an rpm of NaN passes.
SpinningUnlessBelowTen(rpm) == ~FLt(rpm, FromInt(10))

\* LiftCoefficient without the deep-stall step.
LiftCoefficientSoftStallOnly(alphaLocal) ==
  LET cl0 == FMul(Dec(55, 1), alphaLocal)
  IN  IF FGt(alphaLocal, Dec(22, 2)) THEN One ELSE cl0

\* RotorForce with the weight of the rotor acting upwards.
RotorForceWeightUp(lift, drag, gravity) == <<drag, FAdd(lift, gravity)>>

\* StabilityScore penalising the signed tilt instead of its magnitude.
StabilityScoreSignedTilt(expectedTipSpeedRatio, rotorTilt) ==
  MathMin(FromInt(100), MathMax(Zero,
    FSub(FSub(FromInt(100), FMul(expectedTipSpeedRatio, FromInt(3))),
         FMul(rotorTilt, FromInt(2)))))

\* InSegment with both ends of the segment left out.
InSegmentOpen(a, p1, p2) == FGt(a, p1.alpha) /\ FLt(a, p2.alpha)

\* IsSpinning with the switch at 5 rpm.
SpinningAboveFive(rpm) == FGt(rpm, FromInt(5))

\* ClampThrust without the clamp.
ClampThrustOff(thrust, maxThrust) == thrust

\* WorldFrame resolving the thrust as it was before the clamp.
WorldFrameBeforeClamp(l) ==
  l @@ [lift |-> FMul(l.blended, MathCos(l.alphaRad)),
        drag |-> FAdd(FMul(l.blended, MathSin(l.alphaRad)),
                      FMul(l.dragForce, Dec(5, 1)))]

---------------------------------------------------------------------------
(* calculatePhysics, definition by definition                              *)

\* The destructuring default: rotorTilt = 0 when the field is absent.
RotorTiltOf(p) == IF "rotorTilt" \in DOMAIN p THEN Field(p.rotorTilt) ELSE Zero

\* (90 - lineAngle) + rotorTilt, clamped to [-90, 90].
EffectiveAlphaDeg(lineAngle, rotorTilt) ==
  LET a == FAdd(FSub(FromInt(90), lineAngle), rotorTilt)
      b == IF FLt(a, FromInt(-90)) THEN FromInt(-90) ELSE a
  IN  IF FGt(b, FromInt(90)) THEN FromInt(90) ELSE b

\* The tip-speed-ratio curve over the effective angle of attack.
CurveTipSpeedRatio(effectiveAlphaDeg) ==
  IF FLe(effectiveAlphaDeg, Dec(15, 1)) THEN Zero
  ELSE IF FLt(effectiveAlphaDeg, peakAlpha)
       THEN FMul(FDiv(effectiveAlphaDeg, peakAlpha), peakTSR)
       ELSE LET t == FDiv(FSub(effectiveAlphaDeg, peakAlpha),
                          FSub(FromInt(90), peakAlpha))
            IN  FAdd(FMul(peakTSR, FSub(One, t)), FMul(windmillTSR, t))

\* Mass / inertia damping of the ratio below the spin-up wind speed.
InertiaDamping(tsr, windSpeed, rotorMass) ==
  LET minWindToSpin == FAdd(FMul(rotorMass, Dec(5, 1)), One)
  IN  IF FLt(windSpeed, minWindToSpin)
      THEN FMul(tsr, MathMax(Zero, FDiv(windSpeed, minWindToSpin)))
      ELSE tsr

\* rpm from the tip speed and the rotor radius.
Rpm(tipSpeed, rotorRadius) ==
  LET radsPerSecond == FDiv(tipSpeed, rotorRadius)
  IN  FDiv(FMul(radsPerSecond, FromInt(60)), FMul(FromInt(2), MathPI))

\* The regime switch: the blade-element branch is taken when rpm > 10.
IsSpinning(rpm) == FGt(rpm, FromInt(10))

\* Lift coefficient with the two stall steps.
LiftCoefficient(alphaLocal) ==
  LET cl0 == FMul(Dec(55, 1), alphaLocal)
      cl1 == IF FGt(alphaLocal, Dec(22, 2)) THEN One ELSE cl0
  IN  IF FGt(alphaLocal, Dec(35, 2)) THEN Dec(8, 1) ELSE cl1

\* Profile plus induced drag coefficient.
DragCoefficient(cl) == FAdd(Dec(12, 3), FMul(Dec(5, 2), MathPow2(cl)))

\* The upper bound clamp of the rotor thrust.
ClampThrust(thrust, maxThrust) ==
  IF FGt(thrust, maxThrust) THEN maxThrust ELSE thrust

\* The bluff-body drag of a rotor that does not spin.
StationaryDrag(windSpeed, bladeArea, alphaRad) ==
  FMul(FMul(FMul(FMul(FMul(Dec(5, 1), airDensity), MathPow2(windSpeed)),
                 bladeArea), Dec(12, 1)), MathSin(alphaRad))

\* The rotor thrust projected onto the kite line axis.
GeneratedThrust(totalRotorThrust, rotorTilt) ==
  FMul(totalRotorThrust, MathCos(FMul(rotorTilt, RadPerDeg)))

StabilityScore(expectedTipSpeedRatio, rotorTilt) ==
  MathMin(FromInt(100), MathMax(Zero,
    FSub(FSub(FromInt(100), FMul(expectedTipSpeedRatio, FromInt(3))),
         FMul(MathAbs(rotorTilt), FromInt(2)))))

\* The force of the kite on the hub: <<x, y>>.
KiteForce(lineTension, lineAngle) ==
  LET kiteAngleRad == FMul(lineAngle, RadPerDeg)
  IN  <<FMul(lineTension, MathCos(kiteAngleRad)),
        FMul(lineTension, MathSin(kiteAngleRad))>>

\* The force of the rotor on the hub: <<x, y>>.
RotorForce(lift, drag, gravity) == <<drag, FSub(lift, gravity)>>

\* The resultant the anchor resists: the sum of two forces, by components.
AnchorTotal(f, g) == <<FAdd(f[1], g[1]), FAdd(f[2], g[2])>>

\* The anchor tension and angle of a resultant.
AnchorPolar(total) ==
  [anchorTension |-> MathSqrt(FAdd(MathPow2(total[1]), MathPow2(total[2]))),
   anchorAngleDeg |-> FMul(MathAtan2(total[2], total[1]), DegPerRad)]

(* The body of calculatePhysics, block by block.  Each block takes the     *)
(* locals assigned so far, a record l, and returns l with the locals it    *)
(* assigns added.                                                          *)

\* The destructuring of params.
Destructure(p) ==
  [bladeLength |-> Field(p.bladeLength), bladeChord |-> Field(p.bladeChord),
   bladePitch |-> Field(p.bladePitch), windSpeed |-> Field(p.windSpeed),
   lineAngle |-> Field(p.lineAngle), rotorMass |-> Field(p.rotorMass),
   lineTension |-> Field(p.lineTension), rotorTilt |-> RotorTiltOf(p)]

\* Rotor geometry and the effective angle of attack.
Geometry(l) ==
  l @@ [rotorRadius |-> l.bladeLength,
        rotorDiskArea |-> FMul(MathPI, MathPow2(l.bladeLength)),
        bladeArea |-> FMul(FMul(FromInt(bladeCount), l.bladeLength), l.bladeChord),
        effectiveAlphaDeg |-> EffectiveAlphaDeg(l.lineAngle, l.rotorTilt)]

\* The expected tip speed ratio: the curve, then the damping.
TipSpeedRatio(l) ==
  LET curveTSR == CurveTipSpeedRatio(l.effectiveAlphaDeg)
  IN  l @@ [alphaRad |-> FMul(l.effectiveAlphaDeg, RadPerDeg),
            curveTSR |-> curveTSR,
            expectedTipSpeedRatio |->
              InertiaDamping(curveTSR, l.windSpeed, l.rotorMass)]

\* Tip speed, rpm, the weight of the rotor and the regime the rpm selects.
Rotation(l) ==
  LET tipSpeed == FMul(l.windSpeed, l.expectedTipSpeedRatio)
      rpm == Rpm(tipSpeed, l.rotorRadius)
  IN  l @@ [tipSpeed |-> tipSpeed, rpm |-> rpm,
            gravity |-> FMul(l.rotorMass, Dec(981, 2)),
            spinning |-> IsSpinning(rpm)]

\* rpm > 10: the velocities at the blade and the thrust bound.
Inflow(l) ==
  l @@ [v_tangential_sq_mean |-> FDiv(MathPow2(l.tipSpeed), FromInt(3)),
        v_inflow |-> FMul(l.windSpeed, MathSin(l.alphaRad)),
        v_tan_75 |-> FMul(l.tipSpeed, Dec(75, 2)),
        effPitchRad |-> FMul(l.bladePitch, RadPerDeg),
        v_parallel |-> FMul(l.windSpeed, MathCos(l.alphaRad)),
        maxThrust |-> FMul(FMul(FMul(FMul(Dec(5, 1), airDensity),
                                     MathPow2(l.windSpeed)),
                                l.rotorDiskArea), maxCt)]

\* rpm > 10: dynamic pressure, inflow angle and the 75% span diagnostics.
BladeElement(l) ==
  l @@ [dynamicPressure |-> FMul(FMul(Dec(5, 1), airDensity),
                                 FAdd(l.v_tangential_sq_mean, MathPow2(l.v_inflow))),
        phi |-> MathAtan2(l.v_inflow, l.v_tan_75),
        advanceRatio |-> FDiv(l.v_parallel, l.tipSpeed),
        advVel |-> FAdd(l.v_tan_75, l.v_parallel),
        retVel |-> FSub(l.v_tan_75, l.v_parallel),
        reynolds |-> FDiv(FMul(l.v_tan_75, l.bladeChord), kinematicViscosity)]

\* rpm > 10: the local angle of attack and the coefficients it selects.
BladeSection(l) ==
  LET alphaLocal == FAdd(l.phi, l.effPitchRad)
      cl == LiftCoefficient(alphaLocal)
  IN  l @@ [alphaLocal |-> alphaLocal, cl |-> cl,
            cd_profile |-> DragCoefficient(cl),
            advAoA |-> FMul(FAdd(MathAtan2(l.v_inflow, l.advVel), l.effPitchRad),
                            DegPerRad),
            retAoA |-> FMul(FAdd(MathAtan2(l.v_inflow, l.retVel), l.effPitchRad),
                            DegPerRad)]

\* rpm > 10: blade lift and drag, blended into the clamped rotor thrust.
BladeForces(l) ==
  LET liftForce == FMul(FMul(l.dynamicPressure, l.bladeArea), l.cl)
      dragForce == FMul(FMul(l.dynamicPressure, l.bladeArea), l.cd_profile)
      blended == FAdd(FMul(liftForce, MathCos(l.phi)),
                      FMul(dragForce, MathSin(l.phi)))
  IN  l @@ [liftForce |-> liftForce, dragForce |-> dragForce,
            blended |-> blended,
            totalRotorThrust |-> ClampThrust(blended, l.maxThrust)]

\* rpm > 10: the thrust resolved in the world frame.
WorldFrame(l) ==
  l @@ [lift |-> FMul(l.totalRotorThrust, MathCos(l.alphaRad)),
        drag |-> FAdd(FMul(l.totalRotorThrust, MathSin(l.alphaRad)),
                      FMul(l.dragForce, Dec(5, 1)))]

\* The branch rpm > 10.
SpinningRegime(l) ==
  WorldFrame(BladeForces(BladeSection(BladeElement(Inflow(l)))))

\* StationaryRegime without the assignment to totalRotorThrust.
StationaryRegimeNoThrust(l) ==
  LET stationaryDrag == StationaryDrag(l.windSpeed, l.bladeArea, l.alphaRad)
  IN  l @@ [liftForce |-> Zero, dragForce |-> Zero,
            totalRotorThrust |-> Zero,
            lift |-> Zero, drag |-> stationaryDrag,
            advVel |-> Zero, retVel |-> Zero, v_inflow |-> Zero,
            advAoA |-> Zero, retAoA |-> Zero, advanceRatio |-> Zero,
            reynolds |-> Zero]

\* The branch rpm <= 10: a bluff body; the other locals keep their initial 0.
StationaryRegime(l) ==
  LET stationaryDrag == StationaryDrag(l.windSpeed, l.bladeArea, l.alphaRad)
  IN  l @@ [liftForce |-> Zero, dragForce |-> Zero,
            totalRotorThrust |-> stationaryDrag,
            lift |-> Zero, drag |-> stationaryDrag,
            advVel |-> Zero, retVel |-> Zero, v_inflow |-> Zero,
            advAoA |-> Zero, retAoA |-> Zero, advanceRatio |-> Zero,
            reynolds |-> Zero]

Forces(l) == IF l.spinning THEN SpinningRegime(l) ELSE StationaryRegime(l)

\* Thrust along the line, stability score and power.
Resolve(l) ==
  LET generatedThrust == GeneratedThrust(l.totalRotorThrust, l.rotorTilt)
  IN  l @@ [generatedThrust |-> generatedThrust,
            stabilityScore |-> StabilityScore(l.expectedTipSpeedRatio, l.rotorTilt),
            powerOutput |-> FMul(FMul(generatedThrust, l.windSpeed), Dec(3, 1))]

\* The two forces on the hub.
HubForces(l) ==
  l @@ [f_kite |-> KiteForce(l.lineTension, l.lineAngle),
        f_rotor |-> RotorForce(l.lift, l.drag, l.gravity)]

\* The resultant at the anchor, by components and in polar form.
Anchor(l) ==
  LET total == AnchorTotal(l.f_kite, l.f_rotor)
  IN  l @@ [f_anchor_total |-> total] @@ AnchorPolar(total)

\* Every local of calculatePhysics as it stands at the return statement.
PhysicsLocalsBody(p) ==
  Anchor(HubForces(Resolve(Forces(Rotation(TipSpeedRatio(Geometry(
    Destructure(p))))))))

PhysicsLocals(p) == Call("PhysicsLocals", <<p>>)

\* The anchorAnalysis object of the returned value.
AnchorAnalysis(total, polar) ==
  [anchorTension |-> ToFixed(polar.anchorTension, 2),
   anchorAngle |-> ToFixed(polar.anchorAngleDeg, 1),
   lowerLineTensionX |-> ToFixed(total[1], 2),
   lowerLineTensionY |-> ToFixed(total[2], 2)]

\* The returned SimulationResult: every local rounded for display.
ReturnValue(l) ==
  [rpm |-> MathRound(l.rpm),
   generatedThrust |-> ToFixed(l.generatedThrust, 2),
   totalRotorThrust |-> ToFixed(l.totalRotorThrust, 2),
   lift |-> ToFixed(l.lift, 2),
   drag |-> ToFixed(l.drag, 2),
   gravity |-> ToFixed(l.gravity, 2),
   tipSpeed |-> ToFixed(l.tipSpeed, 2),
   tipSpeedRatio |-> ToFixed(l.expectedTipSpeedRatio, 2),
   stabilityScore |-> MathRound(l.stabilityScore),
   powerOutput |-> ToFixed(l.powerOutput, 2),
   angleOfAttack |-> ToFixed(l.effectiveAlphaDeg, 1),
   anchorAnalysis |-> AnchorAnalysis(l.f_anchor_total, l),
   bladeAerodynamics |->
     [advancingVelocity |-> ToFixed(l.advVel, 1),
      retreatingVelocity |-> ToFixed(l.retVel, 1),
      inflowVelocity |-> ToFixed(l.v_inflow, 2),
      advancingAoA |-> ToFixed(l.advAoA, 1),
      retreatingAoA |-> ToFixed(l.retAoA, 1),
      advanceRatio |-> ToFixed(l.advanceRatio, 2),
      reynoldsNumber |-> MathRound(l.reynolds)]]

calculatePhysicsBody(p) == ReturnValue(PhysicsLocals(p))

calculatePhysics(p) == Call("calculatePhysics", <<p>>)

---------------------------------------------------------------------------
(* The callers' inputs: the configurations calculatePhysics is applied to. *)
(* The editor's sliders (src/components/Controls.tsx) keep bladeLength in  *)
(* [0.2, 3], rotorMass in [0.1, 5], windSpeed in [0, 30], lineAngle in     *)
(* [5, 85] and rotorTilt in [-20, 20]; calculatePhysics is exported and    *)
(* total, so the inputs also hold the values beyond the sliders that the   *)
(* specification speaks of: zero radius, zero mass, a negative wind speed,  *)
(* lineAngle 0, 90 and 175, rotorTilt 60, and a configuration with no      *)
(* rotorTilt at all.                                                       *)

NumWindSpeeds == 5

NumLineAngles == 7

NumRotorTilts == 3

WindSpeedValues == <<0, 10000, 500, 2000, -5000, 30000>>

LineAngleValues == <<90000, 75000, 74000, 76000, 60000, 0, 175000, 5000, 85000>>

RotorTiltValues == <<0, -20000, 60000, 20000, 10000>>

BladeLengths == {0, 200, 1200}

BladeChords == {150}

BladePitches == {4000, 15000}

RotorMasses == {0, 1500}

LineTensions == {200000}

WindSpeeds == {WindSpeedValues[i] : i \in 1..NumWindSpeeds}

LineAngles == {LineAngleValues[i] : i \in 1..NumLineAngles}

RotorTilts == {RotorTiltValues[i] : i \in 1..NumRotorTilts}

\* A DesignParams object without its rotorTilt field.
ConfigsNoTilt ==
  [bladeLength : BladeLengths, bladeChord : BladeChords,
   bladePitch : BladePitches, rotorMass : RotorMasses,
   lineTension : LineTensions, lineAngle : LineAngles,
   windSpeed : WindSpeeds, hubDiameter : {50}]

\* A complete DesignParams object.
ConfigsWithTilt ==
  [bladeLength : BladeLengths, bladeChord : BladeChords,
   bladePitch : BladePitches, rotorMass : RotorMasses,
   lineTension : LineTensions, lineAngle : LineAngles,
   windSpeed : WindSpeeds, hubDiameter : {50}, rotorTilt : RotorTilts]

\* A design set on the sliders of the editor: a light rotor in a breeze.
SliderConfigs ==
  {[bladeLength |-> 1200, bladeChord |-> 150, bladePitch |-> 4000,
    rotorMass |-> 100, lineTension |-> 200000, lineAngle |-> 30000,
    windSpeed |-> 500, hubDiameter |-> 50, rotorTilt |-> 0]}

\* A line led backwards along the ground in still air, the rotor weightless.
ReversedLineConfigs ==
  {[bladeLength |-> 1200, bladeChord |-> 150, bladePitch |-> 4000,
    rotorMass |-> 0, lineTension |-> 200000, lineAngle |-> -180000,
    windSpeed |-> 0, hubDiameter |-> 50, rotorTilt |-> 0]}

Configs ==
  ConfigsWithTilt \cup ConfigsNoTilt \cup SliderConfigs
    \cup ReversedLineConfigs

\* What a variable holds while nothing has been assigned to it.
NoValue == <<>>

\* No caller of the function is being followed block by block.
NoCallers == calls = NoValue

\* No sweep is under way.
NoSweep ==
  /\ heap = NoValue /\ w = NoValue /\ data = NoValue
  /\ arg = NoValue /\ res = NoValue

\* No Assistant is mounted.
NoChat ==
  /\ messages = NoValue /\ input = NoValue /\ isLoading = NoValue
  /\ genAI = NoValue /\ inFlight = NoValue

\* No call of interpolateCoefficients is being followed.
NoTable == coefficients = NoValue /\ alpha = NoValue /\ loopIndex = NoValue

\* No App is mounted.
NoApp == memo = NoValue /\ activeTab = NoValue

Init == /\ params \in Configs
        /\ locals = NoValue
        /\ result = NoValue
        /\ pc = "call"
        /\ NoCallers /\ NoSweep /\ NoChat /\ NoTable /\ NoApp

\* One call of calculatePhysics(params), from entry to its return statement.
Calculate ==
  /\ pc = "call"
  /\ locals' = PhysicsLocals(params)
  /\ result' = ReturnValue(locals')
  /\ pc' = "return"
  /\ UNCHANGED <<params, calls, sweepVars, chatVars, tableVars, appVars>>

Next == Calculate

Spec == Init /\ [][Next]_vars

---------------------------------------------------------------------------
(* Several callers.  App recomputes the result of the current design       *)
(* (src/App.tsx, lines 27-29) and Analysis calls the function for each     *)
(* wind speed of its sweep (src/components/Analysis.tsx, lines 150-161).   *)
(* Each call is an activation of calculatePhysics with its own parameter   *)
(* and its own const and let bindings; the function reads and writes       *)
(* nothing else.  Here the activations advance block by block in any       *)
(* interleaving, which is more than one JS thread allows.                  *)

Callers == {"editor", "sweep"}

\* DEFAULT_PARAMS of App.
DefaultParams ==
  [bladeLength |-> 1200, bladeChord |-> 150, bladePitch |-> 4000,
   rotorMass |-> 1500, lineTension |-> 200000, lineAngle |-> 60000,
   windSpeed |-> 10000, hubDiameter |-> 50, rotorTilt |-> 0]

NumCallerInputs == 4

\* The designs the callers pass: the default, a sweep point in light wind,
\* still air, a tilted rotor, a steep line.
CallerInputValues ==
  <<DefaultParams,
    [DefaultParams EXCEPT !.windSpeed = 2000],
    [DefaultParams EXCEPT !.windSpeed = 0],
    [DefaultParams EXCEPT !.rotorTilt = 20000, !.windSpeed = 24000],
    [DefaultParams EXCEPT !.lineAngle = 85000]>>

CallerInputs == {CallerInputValues[i] : i \in 1..NumCallerInputs}

\* The blocks of the function body in program order.
BlockOrder ==
  <<"Destructure", "Geometry", "TipSpeedRatio", "Rotation", "Forces",
    "Resolve", "HubForces", "Anchor", "Return">>

\* The bindings after the named block, from the parameter p and the
\* bindings l before it.
RunBlockBody(name, p, l) ==
  CASE name = "Destructure"   -> Destructure(p)
    [] name = "Geometry"      -> Geometry(l)
    [] name = "TipSpeedRatio" -> TipSpeedRatio(l)
    [] name = "Rotation"      -> Rotation(l)
    [] name = "Forces"        -> Forces(l)
    [] name = "Resolve"       -> Resolve(l)
    [] name = "HubForces"     -> HubForces(l)
    [] name = "Anchor"        -> Anchor(l)
    [] OTHER                  -> l

RunBlock(name, p, l) == Call("RunBlock", <<name, p, l>>)

\* An activation that reads the editor's parameter, as if params were kept
\* in one variable of the module.
SharedInput(cs, c) == cs["editor"].input

\* The parameter of caller c's activation.
ActivationInput(cs, c) == cs[c].input

\* The activation of caller c after its next block.
AfterBlock(a, name, p) ==
  [a EXCEPT !.at = @ + 1,
            !.locals = RunBlock(name, p, @),
            !.result = IF name = "Return" THEN ReturnValue(a.locals) ELSE @]

InitCallers ==
  /\ calls \in [Callers -> {[input |-> p, at |-> 0, locals |-> NoValue,
                              result |-> NoValue] : p \in CallerInputs}]
  /\ params = NoValue /\ locals = NoValue /\ result = NoValue
  /\ pc = NoValue
  /\ NoSweep /\ NoChat /\ NoTable /\ NoApp

\* Caller c's activation executes its next block.
Step(c) ==
  /\ calls[c].at < Len(BlockOrder)
  /\ calls' = [calls EXCEPT ![c] =
                 AfterBlock(@, BlockOrder[@.at + 1], ActivationInput(calls, c))]
  /\ UNCHANGED <<params, locals, result, pc, sweepVars, chatVars, tableVars,
                 appVars>>

NextCallers == \E c \in Callers : Step(c)

SpecCallers == InitCallers /\ [][NextCallers]_vars

---------------------------------------------------------------------------
(* The response-curve sweep of Analysis (src/components/Analysis.tsx,      *)
(* lines 150-161).  Objects live in heap, a sequence; a reference to the   *)
(* i-th object is [ref |-> i].  In this machine params, arg and res hold   *)
(* references: params to the design App handed down, arg to the            *)
(* configuration of the latest call, res to the result it returned.        *)

Ref(i) == [ref |-> i]

\* The fields of a SimulationResult that hold an object.
ObjectFields == {"anchorAnalysis", "bladeAerodynamics"}

\* The objects reached from reference r: its own and those its fields hold.
Reachable(h, r) ==
  {r.ref} \cup {h[r.ref][k].ref : k \in DOMAIN h[r.ref] \cap ObjectFields}

\* A sweep that writes the wind speed into the design itself.
AssignWind(h, p, wind) ==
  [heap |-> [h EXCEPT ![p.ref].windSpeed = 1000 * wind], arg |-> p]

\* { ...params, windSpeed: w }: a new object, the design's fields copied and
\* windSpeed replaced.
SpreadWind(h, p, wind) ==
  [heap |-> Append(h, [h[p.ref] EXCEPT !.windSpeed = 1000 * wind]),
   arg |-> Ref(Len(h) + 1)]

\* The object literal calculatePhysics returns, with its two inner objects:
\* the heap after the return; the result is its last object.
ReturnObject(h, r) ==
  Append(Append(Append(h, r.anchorAnalysis), r.bladeAerodynamics),
         [r EXCEPT !.anchorAnalysis = Ref(Len(h) + 1),
                   !.bladeAerodynamics = Ref(Len(h) + 2)])

\* The data point pushed for wind speed wind and result object r.
SweepPoint(wind, r) ==
  [wind |-> wind, thrust |-> r.generatedThrust, rpm |-> r.rpm]

\* A loop that advances by one.
NextWindByOne(wind) == wind + 1

\* w += 2
NextWind(wind) == wind + 2

\* w <= 25
InSweep(wind) == wind <= 25

NumSweepDesigns == 6

\* The designs swept: the default, a tilted rotor, a steep line, a heavy
\* rotor, a long blade, a design without rotorTilt, a coarse pitch.
SweepDesignValues ==
  <<DefaultParams,
    [DefaultParams EXCEPT !.rotorTilt = 20000],
    [DefaultParams EXCEPT !.lineAngle = 85000],
    [DefaultParams EXCEPT !.rotorMass = 5000],
    [DefaultParams EXCEPT !.bladeLength = 3000],
    [k \in DOMAIN DefaultParams \ {"rotorTilt"} |-> DefaultParams[k]],
    [DefaultParams EXCEPT !.bladePitch = 15000]>>

SweepDesigns == {SweepDesignValues[i] : i \in 1..NumSweepDesigns}

InitSweep ==
  /\ \E d \in SweepDesigns : heap = <<d>>
  /\ params = Ref(1)
  /\ w = 2
  /\ data = <<>>
  /\ arg = NoValue /\ res = NoValue
  /\ pc = "loop"
  /\ locals = NoValue /\ result = NoValue
  /\ NoCallers /\ NoChat /\ NoTable /\ NoApp

\* const res = calculatePhysics({ ...params, windSpeed: w })
SweepCall ==
  /\ pc = "loop" /\ InSweep(w)
  /\ arg' = SpreadWind(heap, params, w).arg
  /\ heap' = ReturnObject(SpreadWind(heap, params, w).heap,
                          calculatePhysics(SpreadWind(heap, params, w).heap[arg'.ref]))
  /\ res' = Ref(Len(heap'))
  /\ pc' = "push"
  /\ UNCHANGED <<params, w, data, locals, result, calls, chatVars, tableVars,
                 appVars>>

\* data.push({ wind: w, thrust: res.generatedThrust, rpm: res.rpm }); w += 2
SweepPush ==
  /\ pc = "push"
  /\ data' = Append(data, SweepPoint(w, heap[res.ref]))
  /\ w' = NextWind(w)
  /\ pc' = "loop"
  /\ UNCHANGED <<params, heap, arg, res, locals, result, calls, chatVars,
                 tableVars, appVars>>

\* return data
SweepReturn ==
  /\ pc = "loop" /\ ~InSweep(w)
  /\ pc' = "done"
  /\ UNCHANGED <<params, heap, w, data, arg, res, locals, result, calls,
                 chatVars, tableVars, appVars>>

NextSweep == SweepCall \/ SweepPush \/ SweepReturn

SpecSweep == InitSweep /\ [][NextSweep]_vars

---------------------------------------------------------------------------
(* The Assistant (src/unnamed/part_001) and the service it calls           *)
(* (src/services/geminiService.ts).  App mounts the Assistant with the     *)
(* current params and results (src/App.tsx, lines 85-89); while it is      *)
(* mounted no control can change them.  A text is a sequence of pieces:    *)
(* what the user types is a sequence of characters, a fixed text of the    *)
(* program is a single piece.  An interpolated number stands in a text as  *)
(* the number itself.  inFlight holds the calls of sendMessageToGemini     *)
(* that have not yet resolved.                                             *)

\* What the user can have typed into the input box.
Texts == {<<>>, <<" ">>, <<"q">>, <<" ", "q">>, <<"q", " ">>}

\* String.prototype.trim
RECURSIVE Trim(_)
Trim(s) ==
  IF s = <<>> THEN s
  ELSE IF Head(s) = " " THEN Trim(Tail(s))
  ELSE IF s[Len(s)] = " " THEN Trim(SubSeq(s, 1, Len(s) - 1))
  ELSE s

Greeting ==
  <<"Hello! I am your GyroKite engineering assistant. I can help you understand the dynamics of your coaxial rotor or suggest parameter changes. What would you like to know?">>

NotConfiguredText ==
  <<"API Key not configured. Please check your environment variables.">>

NoResponseText == <<"No response generated.">>

\* How a generateContent request can end: with a text, with no text, by
\* throwing an error with or without a message, or by throwing null or
\* undefined (a rejection without a reason), which has no message to read.
ApiOutcomes ==
  {[kind |-> "text", text |-> <<"Reduce the pitch.">>],
   [kind |-> "text", text |-> <<>>],
   [kind |-> "error", text |-> <<"quota exceeded">>],
   [kind |-> "error", text |-> <<>>],
   [kind |-> "null", text |-> <<>>],
   [kind |-> "undefined", text |-> <<>>]}

\* The designs the Assistant is mounted with.
AssistantDesigns ==
  {DefaultParams,
   [DefaultParams EXCEPT !.rotorTilt = 20000, !.rotorMass = 3000],
   [DefaultParams EXCEPT !.windSpeed = 0]}

MaxSends == 2

\* { params, results }
SendContext(p, r) == [params |-> p, results |-> r]

\* contextString: the lines of the template and the values interpolated.
ContextString(context) ==
  <<<<"Current Design Configuration:">>,
    <<"- Blade Length: ", context.params.bladeLength, " m">>,
    <<"- Blade Chord: ", context.params.bladeChord, " m">>,
    <<"- Pitch: ", context.params.bladePitch, " deg">>,
    <<"- Line Angle: ", context.params.lineAngle, " deg">>,
    <<"- Wind Speed: ", context.params.windSpeed, " m/s">>,
    <<"Simulation Results:">>,
    <<"- RPM: ", context.results.rpm>>,
    <<"- Generated Tension (Thrust): ", context.results.generatedThrust, " N">>,
    <<"- Stability Score: ", context.results.stabilityScore, "/100">>>>

\* The request sendMessageToGemini issues, or NoValue when no client is
\* configured.
ApiRequest(client, message, context) ==
  IF ~client THEN NoValue
  ELSE [model |-> "gemini-2.5-flash",
        contents |-> <<ContextString(context), "User Question: ", message>>,
        systemInstruction |-> "SYSTEM_INSTRUCTION"]

\* return result.text || "No response generated."
ResponseText(outcome) ==
  IF outcome.text # <<>> THEN outcome.text ELSE NoResponseText

\* return `Error: ${error.message || "Something went wrong ..."}`
ErrorText(outcome) ==
  <<"Error: ">> \o (IF outcome.text # <<>> THEN outcome.text
                    ELSE <<"Something went wrong with the AI service.">>)

\* The TypeError of reading error.message when error is null or undefined.
MessageReadError(outcome) ==
  <<"TypeError: Cannot read properties of ", outcome.kind,
    " (reading 'message')">>

\* How the promise of sendMessageToGemini settles.  A return from the
\* function's body or from its catch block fulfils it with the text
\* returned; the catch block itself throws when it reads the message of
\* null or undefined, and then the promise is rejected.
Settle(client, outcome) ==
  IF ~client THEN [kind |-> "fulfilled", text |-> NotConfiguredText]
  ELSE CASE outcome.kind = "text" ->
              [kind |-> "fulfilled", text |-> ResponseText(outcome)]
         [] outcome.kind = "error" ->
              [kind |-> "fulfilled", text |-> ErrorText(outcome)]
         [] outcome.kind \in {"null", "undefined"} ->
              [kind |-> "rejected", text |-> MessageReadError(outcome)]

\* sendMessageToGemini(message, context) up to its await.
ServiceCall(client, message, context) ==
  [message |-> message, context |-> context,
   api |-> ApiRequest(client, message, context)]

\* The number of messages the user has sent.
Sent(ms) == Cardinality({i \in 1..Len(ms) : ms[i].role = "user"})

InitAssistant ==
  /\ params \in AssistantDesigns
  /\ result = calculatePhysics(params)
  /\ input = <<>>
  /\ messages = <<[role |-> "model", text |-> Greeting]>>
  /\ isLoading = FALSE
  /\ genAI \in BOOLEAN
  /\ inFlight = <<>>
  /\ locals = NoValue /\ pc = NoValue
  /\ NoCallers /\ NoSweep /\ NoTable /\ NoApp

\* onChange of the input box: setInput(e.target.value)
TypeInput(t) ==
  /\ t # input
  /\ input' = t
  /\ UNCHANGED <<messages, isLoading, genAI, inFlight, params, result,
                 locals, pc, calls, sweepVars, tableVars, appVars>>

\* A handler that turns away blank input only.
ReturnsOnBlankOnly(inp, loading) == Trim(inp) = <<>>

\* if (!input.trim() || isLoading) return;
ReturnsAtOnce(inp, loading) == Trim(inp) = <<>> \/ loading

\* The message handleSend appends when the awaited promise has settled:
\* the response text in the try block, the fixed apology in the catch block.
ModelMessage(settled) ==
  IF settled.kind = "fulfilled"
  THEN [role |-> "model", text |-> settled.text]
  ELSE [role |-> "model",
        text |-> <<"Sorry, I encountered an error communicating with the design server.">>,
        isError |-> TRUE]

\* handleSend up to its await, run by the send button or the Enter key; it
\* returns at once on a blank input or while a request is loading.
HandleSend ==
  /\ Sent(messages) < MaxSends
  /\ IF ReturnsAtOnce(input, isLoading)
     THEN UNCHANGED <<messages, input, isLoading, inFlight>>
     ELSE /\ messages' = Append(messages, [role |-> "user", text |-> input])
          /\ input' = <<>>
          /\ isLoading' = TRUE
          /\ inFlight' = Append(inFlight,
                                ServiceCall(genAI, input,
                                            SendContext(params, result)))
  /\ UNCHANGED <<genAI, params, result, locals, pc, calls, sweepVars,
                 tableVars, appVars>>

\* A handler without the finally block: loading is never switched off.
ResumeWithoutFinally(outcome) ==
  /\ inFlight # <<>>
  /\ genAI \/ outcome = [kind |-> "text", text |-> <<>>]
  /\ messages' = Append(messages, ModelMessage(Settle(genAI, outcome)))
  /\ inFlight' = Tail(inFlight)
  /\ UNCHANGED <<isLoading, input, genAI, params, result, locals, pc, calls,
                 sweepVars, tableVars, appVars>>

\* The oldest call settles and handleSend resumes: the model's message is
\* appended and, in the finally block, loading ends.
HandleSendResume(outcome) ==
  /\ inFlight # <<>>
  /\ genAI \/ outcome = [kind |-> "text", text |-> <<>>]
  /\ messages' = Append(messages, ModelMessage(Settle(genAI, outcome)))
  /\ isLoading' = FALSE
  /\ inFlight' = Tail(inFlight)
  /\ UNCHANGED <<input, genAI, params, result, locals, pc, calls, sweepVars,
                 tableVars, appVars>>

NextAssistant ==
  \/ \E t \in Texts : TypeInput(t)
  \/ HandleSend
  \/ \E o \in ApiOutcomes : HandleSendResume(o)

\* Every request the service issues ends, with a response or an error.
SpecAssistant ==
  /\ InitAssistant /\ [][NextAssistant]_vars
  /\ WF_vars(\E o \in ApiOutcomes : HandleSendResume(o))

---------------------------------------------------------------------------
(* interpolateCoefficients (src/services/physicsEngine.ts, lines 242-278), *)
(* followed one loop iteration at a time.  loopIndex is the i of the for   *)
(* loop, counted from 0 as in the source.                                  *)

Row(alphaDeg, cl, cd) ==
  [alpha |-> FromInt(alphaDeg), cl |-> Dec(cl, 2), cd |-> Dec(cd, 2)]

PCA2_DATABody ==
  <<Row(0, 0, 1), Row(5, 15, 3), Row(10, 30, 6), Row(15, 45, 10),
    Row(20, 60, 16), Row(25, 75, 24), Row(30, 85, 35), Row(35, 92, 48),
    Row(40, 95, 62), Row(45, 90, 75), Row(50, 82, 86), Row(60, 65, 96),
    Row(70, 45, 105), Row(80, 25, 115), Row(90, 0, 125)>>

PCA2_DATA == Call("PCA2_DATA", <<>>)

\* const a = Math.max(0, Math.min(90, Math.abs(alpha)))
ClampedAbsAlpha(x) == MathMax(Zero, MathMin(FromInt(90), MathAbs(x)))

\* a >= p1.alpha && a <= p2.alpha
InSegment(a, p1, p2) == FGe(a, p1.alpha) /\ FLe(a, p2.alpha)

\* The object returned from inside the loop.
SegmentValue(a, p1, p2, t) ==
  [cl |-> FAdd(p1.cl, FMul(t, FSub(p2.cl, p1.cl))),
   cd |-> FAdd(p1.cd, FMul(t, FSub(p2.cd, p1.cd)))]

InterpolateSegmentBody(a, p1, p2) ==
  SegmentValue(a, p1, p2,
                FDiv(FSub(a, p1.alpha), FSub(p2.alpha, p1.alpha)))

InterpolateSegment(a, p1, p2) == Call("InterpolateSegment", <<a, p1, p2>>)

\* The body of the function named f, on the arguments a.  As in the
\* program, the arguments are computed before the body runs.
Call(f, a) ==
  Then(a,
  CASE f = "FromInt" -> FromIntBody(a[1])
    [] f = "FAdd" -> FAddBody(a[1], a[2])
    [] f = "FMul" -> FMulBody(a[1], a[2])
    [] f = "FDiv" -> FDivBody(a[1], a[2])
    [] f = "Scaled" -> ScaledBody(a[1], a[2])
    [] f = "MathSqrt" -> MathSqrtBody(a[1])
    [] f = "MathSin" -> MathSinBody(a[1])
    [] f = "MathCos" -> MathCosBody(a[1])
    [] f = "MathAtan2" -> MathAtan2Body(a[1], a[2])
    [] f = "RunBlock" -> RunBlockBody(a[1], a[2], a[3])
    [] f = "PhysicsLocals" -> PhysicsLocalsBody(a[1])
    [] f = "calculatePhysics" -> calculatePhysicsBody(a[1])
    [] f = "PCA2_DATA" -> PCA2_DATABody
    [] f = "InterpolateSegment" -> InterpolateSegmentBody(a[1], a[2], a[3]))

\* The arguments the function is called with: multiples of AlphaStep
\* thousandths of a degree, and the three values that are not finite.
AlphaStep == 2500

MaxAlphaSteps == 40

AlphaInputs ==
  {Field(k * AlphaStep) : k \in -MaxAlphaSteps..MaxAlphaSteps}
    \cup {NaN, Inf(1), Inf(-1)}

InitInterpolate ==
  /\ alpha \in AlphaInputs
  /\ loopIndex = 0
  /\ coefficients = NoValue
  /\ pc = "loop"
  /\ params = NoValue /\ locals = NoValue /\ result = NoValue
  /\ NoCallers /\ NoSweep /\ NoChat /\ NoApp

\* The control flow of an iteration whose segment holds a: a return.
ReturnFromLoop ==
  /\ pc = "loop" /\ loopIndex < Len(PCA2_DATA) - 1
  /\ InSegment(ClampedAbsAlpha(alpha), PCA2_DATA[loopIndex + 1],
               PCA2_DATA[loopIndex + 2])
  /\ pc' = "return"

\* An iteration whose segment holds a: the function returns.
SegmentMatch ==
  /\ ReturnFromLoop
  /\ coefficients' = InterpolateSegment(ClampedAbsAlpha(alpha),
                                        PCA2_DATA[loopIndex + 1],
                                        PCA2_DATA[loopIndex + 2])
  /\ UNCHANGED <<alpha, loopIndex, params, locals, result, calls, sweepVars,
                 chatVars, appVars>>

\* An iteration whose segment does not hold a: i++.
SegmentMiss ==
  /\ pc = "loop" /\ loopIndex < Len(PCA2_DATA) - 1
  /\ ~InSegment(ClampedAbsAlpha(alpha), PCA2_DATA[loopIndex + 1],
                PCA2_DATA[loopIndex + 2])
  /\ loopIndex' = loopIndex + 1
  /\ UNCHANGED <<alpha, coefficients, pc, params, locals, result, calls,
                 sweepVars, chatVars, appVars>>

\* The loop has run out: return { cl: 0, cd: 0 }.
Fallback ==
  /\ pc = "loop" /\ loopIndex = Len(PCA2_DATA) - 1
  /\ coefficients' = [cl |-> Zero, cd |-> Zero]
  /\ pc' = "fallback"
  /\ UNCHANGED <<alpha, loopIndex, params, locals, result, calls, sweepVars,
                 chatVars, appVars>>

NextInterpolate == SegmentMatch \/ SegmentMiss \/ Fallback

\* The control flow of the next statement: an iteration returns or moves on
\* to the next segment, and after the last iteration the loop is left.
ControlStep ==
  /\ pc = "loop"
  /\ \/ /\ loopIndex < Len(PCA2_DATA) - 1
        /\ pc' = "return" /\ loopIndex' = loopIndex
     \/ /\ loopIndex < Len(PCA2_DATA) - 1
        /\ pc' = pc /\ loopIndex' = loopIndex + 1
     \/ /\ loopIndex = Len(PCA2_DATA) - 1
        /\ pc' = "fallback" /\ loopIndex' = loopIndex

\* The call is synchronous: a statement that can run does run.
SpecInterpolate ==
  /\ InitInterpolate /\ [][NextInterpolate]_vars
  /\ WF_<<pc, loopIndex>>(ControlStep)

---------------------------------------------------------------------------
(* App (src/App.tsx) with the Controls it mounts on the design tab         *)
(* (src/components/Controls.tsx).  The designs are objects on the heap;    *)
(* params refers to the one App's state holds, memo is the cell of         *)
(* useMemo, and result is the results constant of the latest render.  A    *)
(* state setter leaves a render due (pc = "render"); React runs it before  *)
(* it delivers the next event, so the handlers wait for pc = "idle".       *)

Tabs == {"design", "analysis", "assistant"}

\* What the sliders of Controls can report: a field and its new value.
SliderEdits ==
  {[key |-> "windSpeed", value |-> 0],
   [key |-> "windSpeed", value |-> 10000],
   [key |-> "lineAngle", value |-> 75000],
   [key |-> "rotorTilt", value |-> -14000],
   [key |-> "rotorMass", value |-> 100],
   [key |-> "bladeLength", value |-> 200]}

MaxEdits == 3

\* An editor that writes the field into the object it was given.
AssignField(h, p, key, value) ==
  [heap |-> [h EXCEPT ![p.ref] = (key :> value) @@ h[p.ref]], arg |-> p]

\* { ...params, [key]: value }: a new object, the fields of params copied
\* and the field key set to value.
SpreadField(h, p, key, value) ==
  [heap |-> Append(h, (key :> value) @@ h[p.ref]), arg |-> Ref(Len(h) + 1)]

\* A memo cell that is computed on the first render and never again.
UseMemoOnce(m, p, h) ==
  IF m.deps # NoValue THEN m
  ELSE [deps |-> p, value |-> calculatePhysics(h[p.ref])]

\* useMemo(() => calculatePhysics(params), [params]): the cell is computed
\* on the first render, and again when params is not the object it was
\* computed from.
UseMemo(m, p, h) ==
  IF m.deps # NoValue /\ m.deps = p THEN m
  ELSE [deps |-> p, value |-> calculatePhysics(h[p.ref])]

\* The children App renders and the props it hands them.
Rendered(tab, p, r) ==
  [ThreeScene |-> [params |-> p, results |-> r],
   Overlay |-> [results |-> r],
   Panel |-> IF tab = "design" THEN [params |-> p]
             ELSE IF tab = "analysis" THEN [params |-> p, currentResults |-> r]
             ELSE [params |-> p, results |-> r]]

\* App before its first render.
InitApp ==
  /\ heap = <<DefaultParams>>
  /\ params = Ref(1)
  /\ activeTab = "design"
  /\ memo = [deps |-> NoValue, value |-> NoValue]
  /\ result = NoValue
  /\ pc = "render"
  /\ w = NoValue /\ data = NoValue /\ arg = NoValue /\ res = NoValue
  /\ locals = NoValue
  /\ NoCallers /\ NoChat /\ NoTable

\* App's function body runs: results = useMemo(...).
Render ==
  /\ pc = "render"
  /\ memo' = UseMemo(memo, params, heap)
  /\ result' = memo'.value
  /\ pc' = "idle"
  /\ UNCHANGED <<params, heap, activeTab, w, data, arg, res, locals, calls,
                 chatVars, tableVars>>

\* Controls.handleChange(key, value): onChange is App's setParams.
HandleChange(key, value) ==
  /\ pc = "idle" /\ activeTab = "design"
  /\ Len(heap) <= MaxEdits
  /\ heap' = SpreadField(heap, params, key, value).heap
  /\ params' = SpreadField(heap, params, key, value).arg
  /\ pc' = "render"
  /\ UNCHANGED <<memo, result, activeTab, w, data, arg, res, locals, calls,
                 chatVars, tableVars>>

\* A click on a tab button: setActiveTab(tab).
SetActiveTab(tab) ==
  /\ pc = "idle" /\ tab # activeTab
  /\ activeTab' = tab
  /\ pc' = "render"
  /\ UNCHANGED <<params, heap, memo, result, w, data, arg, res, locals,
                 calls, chatVars, tableVars>>

NextApp ==
  \/ Render
  \/ \E e \in SliderEdits : HandleChange(e.key, e.value)
  \/ \E tab \in Tabs : SetActiveTab(tab)

SpecApp == InitApp /\ [][NextApp]_vars

---------------------------------------------------------------------------
(* Properties of calculatePhysics                                          *)

Returned == pc = "return"

HasTilt(p) == "rotorTilt" \in DOMAIN p

\* The configurations the specification calls valid.
ValidConfiguration(p) ==
  /\ p.bladeLength > 0 /\ p.bladeChord > 0 /\ p.rotorMass > 0
  /\ p.windSpeed >= 0 /\ p.lineAngle >= 0 /\ p.lineAngle <= 90000

\* The numeric fields of a SimulationResult.
ResultFields(r) ==
  {r.rpm, r.generatedThrust, r.totalRotorThrust, r.lift, r.drag, r.gravity,
   r.tipSpeed, r.tipSpeedRatio, r.stabilityScore, r.powerOutput,
   r.angleOfAttack, r.anchorAnalysis.anchorTension,
   r.anchorAnalysis.anchorAngle, r.anchorAnalysis.lowerLineTensionX,
   r.anchorAnalysis.lowerLineTensionY,
   r.bladeAerodynamics.advancingVelocity,
   r.bladeAerodynamics.retreatingVelocity,
   r.bladeAerodynamics.inflowVelocity, r.bladeAerodynamics.advancingAoA,
   r.bladeAerodynamics.retreatingAoA, r.bladeAerodynamics.advanceRatio,
   r.bladeAerodynamics.reynoldsNumber}

\* A field that holds a finite number.
FiniteField(f) == f.kind \in {"num", "large", "-large"}

AllFinite(r) == \A f \in ResultFields(r) : FiniteField(f)

\* C1: for every valid configuration the returned rpm is >= 0 and the
\* returned stabilityScore lies in [0, 100] (before and after rounding).
RpmAndStabilityInRange ==
  Returned /\ ValidConfiguration(params) =>
    /\ FGe(locals.rpm, Zero)
    /\ FGe(locals.stabilityScore, Zero)
    /\ FLe(locals.stabilityScore, FromInt(100))
    /\ result.rpm.kind = "num" /\ result.rpm.v >= 0
    /\ result.stabilityScore.kind = "num"
    /\ result.stabilityScore.v >= 0 /\ result.stabilityScore.v <= 100

\* A valid configuration whose rotor turns and whose score the floor holds at 0.
TurningRotorFlooredScore ==
  /\ Returned /\ ValidConfiguration(params)
  /\ result.rpm.v > 0 /\ result.stabilityScore.v = 0

\* C3 as stated: whatever the finite input, every field of the returned
\* result is a finite number.
EveryFieldFinite == Returned => AllFinite(result)

\* C3, amended: for every finite input with bladeLength # 0 every field of
\* the returned result is a finite number; with bladeLength = 0 the rpm is
\* NaN or infinite.
EveryFieldFiniteOffZeroRadius ==
  Returned =>
    IF params.bladeLength # 0 THEN AllFinite(result)
    ELSE ~FiniteField(result.rpm)

\* No wind, no mass, a line angle beyond the vertical, and a finite result.
DegenerateInputFiniteResult ==
  /\ Returned /\ params.bladeLength # 0 /\ params.windSpeed = 0
  /\ params.rotorMass = 0 /\ params.lineAngle = 175000
  /\ AllFinite(result)

\* C4: with windSpeed = 0 and the other fields valid, the returned rpm,
\* generatedThrust and lift are 0.
NoWindNoRotation ==
  Returned /\ ValidConfiguration(params) /\ params.windSpeed = 0 =>
    /\ result.rpm = Num(0)
    /\ result.generatedThrust = Num(0)
    /\ result.lift = Num(0)

\* A valid configuration in still air, the disc inclined to the wind.
StillAirInclinedDisc ==
  /\ Returned /\ ValidConfiguration(params) /\ params.windSpeed = 0
  /\ params.lineAngle = 60000 /\ result.rpm = Num(0)
  /\ result.generatedThrust = Num(0)

\* (90 - lineAngle) + rotorTilt in thousandths of a degree, clamped.
ClampedAlpha(p) ==
  LET a == 90000 - p.lineAngle + p.rotorTilt
  IN  IF a < -90000 THEN -90000 ELSE IF a > 90000 THEN 90000 ELSE a

\* C5: the returned angleOfAttack is (90 - lineAngle) + rotorTilt clamped
\* to [-90, 90]: within the range it is that value, beyond it the nearer
\* bound, and a result is returned in either case.
AngleOfAttackClamped ==
  Returned /\ HasTilt(params) =>
    /\ result.angleOfAttack = Num(ClampedAlpha(params) \div 100)
    /\ result.angleOfAttack.v >= -900 /\ result.angleOfAttack.v <= 900

\* A geometry below the range, returned at the lower bound.
AlphaHeldAtLowerBound ==
  /\ Returned /\ HasTilt(params)
  /\ params.lineAngle = 175000 /\ params.rotorTilt = -20000
  /\ result.angleOfAttack = Num(-900)

\* C6 as stated: with lineAngle = 90 and rotorTilt = 0 the returned
\* angleOfAttack, tipSpeedRatio, tipSpeed and rpm are 0 at every wind speed
\* and rotor mass, whatever the other fields.
VerticalLineAllZero ==
  Returned /\ HasTilt(params) /\ params.lineAngle = 90000
           /\ params.rotorTilt = 0 =>
    /\ result.angleOfAttack = Num(0)
    /\ result.tipSpeedRatio = Num(0)
    /\ result.tipSpeed = Num(0)
    /\ result.rpm = Num(0)

\* C6, amended: with lineAngle = 90 and rotorTilt = 0 the returned
\* angleOfAttack, tipSpeedRatio and tipSpeed are 0 at every wind speed and
\* rotor mass; the rpm is 0 for a rotor of non-zero radius and NaN, from
\* the division 0 / 0, for bladeLength = 0.
VerticalLineDeadZone ==
  Returned /\ HasTilt(params) /\ params.lineAngle = 90000
           /\ params.rotorTilt = 0 =>
    /\ result.angleOfAttack = Num(0)
    /\ result.tipSpeedRatio = Num(0)
    /\ result.tipSpeed = Num(0)
    /\ params.bladeLength # 0 => result.rpm = Num(0)
    /\ params.bladeLength = 0 => result.rpm = NumNaN

\* A vertical line in a 10 m/s wind: nothing turns.
VerticalLineInWind ==
  /\ Returned /\ HasTilt(params) /\ params.lineAngle = 90000
  /\ params.rotorTilt = 0 /\ params.windSpeed = 10000
  /\ params.bladeLength # 0
  /\ result.tipSpeedRatio = Num(0) /\ result.rpm = Num(0)

\* The locals of the tip speed ratio block for p with its lineAngle replaced.
RatioLocalsAt(p, lineAngle) ==
  TipSpeedRatio(Geometry(Destructure([p EXCEPT !.lineAngle = lineAngle])))

\* Line angles, in degrees, over which effective alpha runs from 90 to -90.
SweepLineAngles == {5 * i : i \in 0..36} \cup {74, 76, 88, 89}

\* C7: with rotorTilt = 0 and wind speed and rotor mass fixed, the tip
\* speed ratio is largest at lineAngle = 75, where the curve gives 8.5
\* before damping: over lineAngle it does not decrease up to 75 (effective
\* alpha from 90 down to 15) and does not increase beyond 75 (effective
\* alpha from 15 down to -90).
RatioPeaksAtSeventyFive ==
  Returned /\ HasTilt(params) /\ params.rotorTilt = 0 =>
    LET peak == RatioLocalsAt(params, 75000)
    IN  /\ peak.curveTSR = peakTSR
        /\ FLe(locals.expectedTipSpeedRatio, peak.expectedTipSpeedRatio)
        /\ result.tipSpeedRatio.v <= ToFixed(peak.expectedTipSpeedRatio, 2).v
        /\ params.lineAngle = 75000 =>
             LET ratio == [a \in SweepLineAngles |->
                            RatioLocalsAt(params, 1000 * a).expectedTipSpeedRatio]
             IN  \A a, b \in SweepLineAngles :
                   /\ a < b /\ b <= 75 => FLe(ratio[a], ratio[b])
                   /\ 75 <= a /\ a < b => FGe(ratio[a], ratio[b])

\* The peak itself, undamped: lineAngle 75 in a 10 m/s wind returns 8.5.
RatioAtThePeak ==
  /\ Returned /\ HasTilt(params) /\ params.rotorTilt = 0
  /\ params.lineAngle = 75000 /\ params.windSpeed = 10000
  /\ result.tipSpeedRatio = Num(850)

\* C8: for |rotorTilt| <= 90 the generatedThrust is no larger in magnitude
\* than the totalRotorThrust, before and after rounding to two decimals.
ProjectionNeverExceedsThrust ==
  Returned /\ HasTilt(params) /\ Abs(params.rotorTilt) <= 90000 =>
    /\ FLe(FAbs(locals.generatedThrust), FAbs(locals.totalRotorThrust))
    /\ result.generatedThrust.kind = "num"
    /\ result.totalRotorThrust.kind = "num"
    /\ Abs(result.generatedThrust.v) <= Abs(result.totalRotorThrust.v)

\* A rotor tilted by 60 degrees: the projection is strictly smaller.
TiltedRotorProjectsLess ==
  /\ Returned /\ HasTilt(params) /\ params.rotorTilt = 60000
  /\ result.totalRotorThrust.v > 0
  /\ result.generatedThrust.v < result.totalRotorThrust.v

\* C9: summing the rotor-side and the kite-side vector in the other order
\* yields the same lowerLineTensionX, lowerLineTensionY, anchorTension and
\* anchorAngle.
AnchorSumOrderFree ==
  Returned =>
    LET swapped == AnchorTotal(locals.f_rotor, locals.f_kite)
    IN  AnchorAnalysis(swapped, AnchorPolar(swapped)) = result.anchorAnalysis

\* Two different forces on the hub and a non-zero resultant.
DistinctForcesSummed ==
  /\ Returned /\ locals.f_kite # locals.f_rotor
  /\ ~IsZero(locals.f_rotor[2])
  /\ result.anchorAnalysis.anchorTension.v > 0

\* C11: calls made by several callers on independent inputs, their blocks
\* interleaved in any order, each return what the same call returns when
\* run alone, and at every point each activation's bindings are those the
\* call alone would have.
CallersDoNotInterfere ==
  ~NoCallers =>
    \A c \in Callers :
      /\ calls[c].at = Len(BlockOrder) =>
            calls[c].result = calculatePhysics(calls[c].input)
      /\ calls[c].at = 1 => calls[c].locals = Destructure(calls[c].input)

\* Both calls returned, on different inputs, after the sweep's call began
\* while the editor's was under way.
TwoCallsBothReturned ==
  /\ ~NoCallers
  /\ calls["editor"].at = Len(BlockOrder) /\ calls["sweep"].at = Len(BlockOrder)
  /\ calls["editor"].input # calls["sweep"].input
  /\ calls["editor"].result # calls["sweep"].result

\* The result of the model for the swept design at wind speed wind.
SweptResult(wind) ==
  calculatePhysics([heap[params.ref] EXCEPT !.windSpeed = 1000 * wind])

\* The i-th data point is the one for wind speed 2 * i.
PointFor(i) ==
  /\ data[i].wind = 2 * i
  /\ data[i].thrust = SweptResult(2 * i).generatedThrust
  /\ data[i].rpm = SweptResult(2 * i).rpm

\* C12: the sweep calls the model once for each wind speed 2, 4, .., 24,
\* every other parameter that of the current design; its points are in
\* ascending order of the wind speed supplied, each carrying the
\* generatedThrust and rpm computed for exactly that wind speed.
SweepPointsInOrder ==
  ~NoSweep =>
    /\ \A i \in 1..Len(data) : data[i].wind = 2 * i
    /\ Len(heap) = 1 + 4 * Len(data) + (IF pc = "push" THEN 4 ELSE 0)
    /\ pc = "push" =>
         heap[arg.ref] = [heap[params.ref] EXCEPT !.windSpeed = 1000 * w]
    /\ pc = "loop" /\ Len(data) > 0 => PointFor(Len(data))
    /\ pc = "done" => Len(data) = 12 /\ \A i \in 1..12 : PointFor(i)

\* A finished sweep whose last point is the one for 24 m/s and whose rpm
\* grew along the sweep.
SweepFinished ==
  /\ ~NoSweep /\ pc = "done" /\ Len(data) = 12
  /\ data[12].wind = 24 /\ data[1].rpm.v < data[12].rpm.v

\* No object that existed before a step differs after it.
HeapOnlyGrows ==
  NoSweep' \/ /\ Len(heap') >= Len(heap)
              /\ \A i \in 1..Len(heap) : heap'[i] = heap[i]

\* The result of the latest call reaches no object that the configuration
\* passed or the design reach.
ResultSharesNothing ==
  ~NoSweep /\ res # NoValue =>
    /\ arg # params
    /\ Reachable(heap, res) \cap
         (Reachable(heap, arg) \cup Reachable(heap, params)) = {}

\* C13: calculatePhysics leaves every field of the configuration it is
\* passed unchanged, the sweep leaves the params object unchanged (each call
\* receives a new object that differs from it in windSpeed only), and the
\* returned result shares no object with the input.
InputsAreNeverWritten ==
  /\ [][HeapOnlyGrows /\ params' = params]_vars
  /\ [](~NoSweep /\ pc = "push" =>
          heap[arg.ref] = [heap[params.ref] EXCEPT !.windSpeed = 1000 * w])
  /\ []ResultSharesNothing

\* The last call of a sweep has returned: the design still says 10 m/s, the
\* configuration passed says 24 m/s.
DesignKeptThroughSweep ==
  /\ ~NoSweep /\ pc = "push" /\ w = 24
  /\ heap[params.ref].windSpeed = 10000
  /\ heap[arg.ref].windSpeed = 24000
  /\ heap[res.ref].rpm.v > 0

\* The label of the prompt line that carries a field of the design.
DesignLabel ==
  [bladeLength |-> "- Blade Length: ", bladeChord |-> "- Blade Chord: ",
   bladePitch |-> "- Pitch: ", lineAngle |-> "- Line Angle: ",
   windSpeed |-> "- Wind Speed: "]

\* The label of the prompt line that carries a field of the result.
ResultLabel ==
  [rpm |-> "- RPM: ",
   generatedThrust |-> "- Generated Tension (Thrust): ",
   stabilityScore |-> "- Stability Score: "]

\* The prompt has a line that carries field f under its label, with value v.
Carries(lines, labels, f, v) ==
  /\ f \in DOMAIN labels
  /\ \E j \in 1..Len(lines) :
       /\ Len(lines[j]) >= 2
       /\ lines[j][1] = labels[f]
       /\ lines[j][2] = v

\* C14: the context passed to the assistant service with a user question
\* holds the current design and the current result whole, and the context
\* the service sends on with the question includes every input field of the
\* design and every output field of the result.
AssistantGetsFullContext ==
  ~NoChat =>
    \A i \in 1..Len(inFlight) :
      /\ inFlight[i].context.params = params
      /\ inFlight[i].context.results = result
      /\ inFlight[i].message = messages[Len(messages)].text
      /\ genAI =>
           /\ inFlight[i].api.contents[3] = inFlight[i].message
           /\ \A f \in DOMAIN params :
                Carries(inFlight[i].api.contents[1], DesignLabel, f, params[f])
           /\ \A f \in DOMAIN result :
                Carries(inFlight[i].api.contents[1], ResultLabel, f, result[f])

\* p with a rotorTilt field of 0.
WithZeroTilt(p) ==
  [k \in DOMAIN p \cup {"rotorTilt"} |-> IF k = "rotorTilt" THEN 0 ELSE p[k]]

\* C10: a configuration without rotorTilt returns, in every field, what the
\* same configuration with rotorTilt = 0 returns.
AbsentTiltIsZeroTilt ==
  Returned /\ ~HasTilt(params) => result = calculatePhysics(WithZeroTilt(params))

\* A configuration without rotorTilt whose rotor turns.
NoTiltFieldRotorTurns ==
  /\ Returned /\ ~HasTilt(params)
  /\ result.rpm.kind = "num" /\ result.rpm.v > 0
  /\ result.generatedThrust.v > 0

---------------------------------------------------------------------------
(* The tip speed ratio and the two regimes, formula by formula.  Each      *)
(* property writes the formula out in the numbers of the source and        *)
(* compares it with the local calculatePhysics computed.                   *)

\* The decay blend at t = (alpha - 15) / 75.
DecayBlend(t) ==
  FAdd(FMul(Dec(85, 1), FSub(One, t)), FMul(Dec(35, 1), t))

\* C15: before the damping the tip speed ratio is 0 for an effective angle
\* of attack at or below 1.5 degrees, (alpha / 15) * 8.5 between 1.5 and 15
\* degrees, and from 15 degrees on the blend 8.5 * (1 - t) + 3.5 * t with
\* t = (alpha - 15) / 75, which is 8.5 at 15 degrees and 3.5 at 90.
CurveIsPiecewise ==
  Returned =>
    /\ locals.curveTSR =
         (IF FLe(locals.effectiveAlphaDeg, Dec(15, 1)) THEN Zero
          ELSE IF FLt(locals.effectiveAlphaDeg, FromInt(15))
               THEN FMul(FDiv(locals.effectiveAlphaDeg, FromInt(15)), Dec(85, 1))
               ELSE DecayBlend(FDiv(FSub(locals.effectiveAlphaDeg, FromInt(15)),
                                    FromInt(75))))
    /\ locals.effectiveAlphaDeg = FromInt(15) => locals.curveTSR = Dec(85, 1)
    /\ locals.effectiveAlphaDeg = FromInt(90) => locals.curveTSR = Dec(35, 1)

\* On the ramp, one degree below the peak.
CurveOnTheRamp ==
  /\ Returned
  /\ locals.effectiveAlphaDeg = FromInt(14)
  /\ FGt(locals.curveTSR, FromInt(7)) /\ FLt(locals.curveTSR, Dec(85, 1))

\* minWindToSpin = 0.5 * rotorMass + 1
MinWindToSpin(rotorMass) == FAdd(FMul(rotorMass, Dec(5, 1)), One)

\* C16: below minWindToSpin = 0.5 * rotorMass + 1 the tip speed ratio is
\* multiplied by max(0, windSpeed / minWindToSpin), at or above it the ratio
\* is left alone; with rotorMass >= 0 and windSpeed >= 0 the damping neither
\* raises the ratio nor makes it negative.
DampingOnlyLowers ==
  Returned =>
    /\ locals.expectedTipSpeedRatio =
         (IF FLt(locals.windSpeed, MinWindToSpin(locals.rotorMass))
          THEN FMul(locals.curveTSR,
                    MathMax(Zero, FDiv(locals.windSpeed,
                                       MinWindToSpin(locals.rotorMass))))
          ELSE locals.curveTSR)
    /\ (FGe(locals.rotorMass, Zero) /\ FGe(locals.windSpeed, Zero)) =>
         /\ FLe(locals.expectedTipSpeedRatio, locals.curveTSR)
         /\ FGe(locals.expectedTipSpeedRatio, Zero)

\* A light wind on a heavy rotor: the ratio is lowered but not to 0.
RatioDampedInLightWind ==
  /\ Returned
  /\ FLt(locals.windSpeed, MinWindToSpin(locals.rotorMass))
  /\ FGt(locals.expectedTipSpeedRatio, Zero)
  /\ FLt(locals.expectedTipSpeedRatio, locals.curveTSR)

\* 0.5 * 1.225 * windSpeed^2 * (2 * bladeLength * bladeChord) * 1.2 * sin(alpha)
BluffBodyDrag(l) ==
  FMul(FMul(FMul(FMul(FMul(Dec(5, 1), Dec(1225, 3)), MathPow2(l.windSpeed)),
                 FMul(FMul(FromInt(2), l.bladeLength), l.bladeChord)),
            Dec(12, 1)),
       MathSin(FMul(l.effectiveAlphaDeg, RadPerDeg)))

\* The fields of a bladeAerodynamics object.
BladeAerodynamicsFields(b) ==
  {b.advancingVelocity, b.retreatingVelocity, b.inflowVelocity,
   b.advancingAoA, b.retreatingAoA, b.advanceRatio, b.reynoldsNumber}

\* C17: when the rotor does not spin (the branch taken unless rpm > 10) the
\* drag is the bluff-body drag of the blades, the lift is 0, the total
\* rotor thrust is that drag, and every field of bladeAerodynamics is 0.
StationaryRotorIsBluffBody ==
  (Returned /\ ~locals.spinning) =>
    /\ ~FGt(locals.rpm, FromInt(10))
    /\ locals.drag = BluffBodyDrag(locals)
    /\ locals.lift = Zero
    /\ locals.totalRotorThrust = locals.drag
    /\ result.drag = ToFixed(BluffBodyDrag(locals), 2)
    /\ result.lift = ToFixed(Zero, 2)
    /\ result.totalRotorThrust = result.drag
    /\ \A f \in BladeAerodynamicsFields(result.bladeAerodynamics) :
         f.kind = "num" /\ f.v = 0

\* A rotor turning at no more than 10 rpm in a wind that drags on it.
SlowRotorDragged ==
  /\ Returned /\ ~locals.spinning
  /\ FGt(locals.rpm, Zero) /\ FLe(locals.rpm, FromInt(10))
  /\ FGt(locals.totalRotorThrust, Zero)
  /\ result.drag.kind = "num" /\ result.drag.v > 0

\* C18: the blade-element branch is entered only with a tip speed other
\* than 0, whatever the input and also for a blade of length 0, so that
\* the division of the advance ratio is never a division by zero.
SpinningHasTipSpeed ==
  (Returned /\ locals.spinning) =>
    /\ IsFinite(locals.tipSpeed) /\ ~IsZero(locals.tipSpeed)
    /\ locals.advanceRatio = FDiv(locals.v_parallel, locals.tipSpeed)
    /\ IsFinite(locals.advanceRatio)

\* A blade of length 0 in the blade-element branch.
ZeroLengthBladeSpinning ==
  /\ Returned /\ locals.spinning
  /\ params.bladeLength = 0
  /\ ~IsFinite(locals.rpm)
  /\ FGt(locals.tipSpeed, Zero)

\* q_disk * rotorDiskArea * maxCt
MaxThrust(l) ==
  FMul(FMul(FMul(FMul(Dec(5, 1), Dec(1225, 3)), MathPow2(l.windSpeed)),
            FMul(MathPI, MathPow2(l.bladeLength))),
       Dec(13, 1))

\* C19: in the blade-element branch the total rotor thrust never exceeds
\* maxThrust = 1.3 * (0.5 * 1.225 * windSpeed^2) * (pi * bladeLength^2): a
\* blended thrust above the bound is replaced by the bound, any other is
\* kept.
ThrustClampedAtBound ==
  (Returned /\ locals.spinning) =>
    /\ locals.maxThrust = MaxThrust(locals)
    /\ FLe(locals.totalRotorThrust, MaxThrust(locals))
    /\ locals.totalRotorThrust =
         (IF FGt(locals.blended, MaxThrust(locals)) THEN MaxThrust(locals)
          ELSE locals.blended)

\* A blended thrust above the bound of a small disc.
BlendedThrustAboveBound ==
  /\ Returned /\ locals.spinning
  /\ FGt(locals.blended, locals.maxThrust)
  /\ FGt(locals.maxThrust, Zero)
  /\ locals.totalRotorThrust = locals.maxThrust

\* C20: in the blade-element branch lift = totalRotorThrust * cos(alpha)
\* and drag = totalRotorThrust * sin(alpha) + 0.5 * dragForce, where
\* totalRotorThrust is the thrust after the clamp.
WorldFrameFromClampedThrust ==
  (Returned /\ locals.spinning) =>
    /\ locals.lift =
         FMul(locals.totalRotorThrust,
              MathCos(FMul(locals.effectiveAlphaDeg, RadPerDeg)))
    /\ locals.drag =
         FAdd(FMul(locals.totalRotorThrust,
                   MathSin(FMul(locals.effectiveAlphaDeg, RadPerDeg))),
              FMul(locals.dragForce, Dec(5, 1)))
    /\ result.lift = ToFixed(locals.lift, 2)
    /\ result.drag = ToFixed(locals.drag, 2)

\* A clamped thrust resolved on an inclined disc: lift and drag both act.
ClampedThrustResolved ==
  /\ Returned /\ locals.spinning
  /\ locals.totalRotorThrust # locals.blended
  /\ FGt(locals.lift, Zero)
  /\ FGt(locals.drag, FMul(locals.dragForce, Dec(5, 1)))

\* C21: in the blade-element branch cl = 5.5 * alphaLocal up to 0.22 rad,
\* 1.0 above 0.22 and up to 0.35 rad, 0.8 above 0.35 rad, and the drag
\* coefficient is 0.012 + 0.05 * cl^2.
CoefficientsFollowStallSteps ==
  (Returned /\ locals.spinning) =>
    /\ locals.alphaLocal = FAdd(locals.phi, FMul(locals.bladePitch, RadPerDeg))
    /\ locals.cl =
         (IF FLe(locals.alphaLocal, Dec(22, 2))
          THEN FMul(Dec(55, 1), locals.alphaLocal)
          ELSE IF FLe(locals.alphaLocal, Dec(35, 2)) THEN One
          ELSE Dec(8, 1))
    /\ locals.cd_profile =
         FAdd(Dec(12, 3), FMul(Dec(5, 2), FMul(locals.cl, locals.cl)))

\* A blade in deep stall.
BladeInDeepStall ==
  /\ Returned /\ locals.spinning
  /\ FGt(locals.alphaLocal, Dec(35, 2))
  /\ locals.cl = Dec(8, 1)
  /\ FGt(locals.cd_profile, Dec(439, 4)) /\ FLt(locals.cd_profile, Dec(441, 4))

\* lineTension * cos(lineAngle) + drag
ResultantX(l) ==
  FAdd(FMul(l.lineTension, MathCos(FMul(l.lineAngle, RadPerDeg))), l.drag)

\* lineTension * sin(lineAngle) + (lift - gravity)
ResultantY(l) ==
  FAdd(FMul(l.lineTension, MathSin(FMul(l.lineAngle, RadPerDeg))),
       FSub(l.lift, l.gravity))

\* The resultant, its norm and its angle as the formulas give them, and the
\* returned fields as these values rounded.
ResultantFormulas ==
  /\ locals.gravity = FMul(locals.rotorMass, Dec(981, 2))
  /\ locals.f_anchor_total = <<ResultantX(locals), ResultantY(locals)>>
  /\ locals.anchorTension =
       MathSqrt(FAdd(FMul(ResultantX(locals), ResultantX(locals)),
                     FMul(ResultantY(locals), ResultantY(locals))))
  /\ FGe(locals.anchorTension, Zero)
  /\ locals.anchorAngleDeg =
       FMul(MathAtan2(ResultantY(locals), ResultantX(locals)), DegPerRad)
  /\ result.anchorAnalysis =
       [anchorTension |-> ToFixed(locals.anchorTension, 2),
        anchorAngle |-> ToFixed(locals.anchorAngleDeg, 1),
        lowerLineTensionX |-> ToFixed(ResultantX(locals), 2),
        lowerLineTensionY |-> ToFixed(ResultantY(locals), 2)]
  /\ result.gravity = ToFixed(locals.gravity, 2)

\* C22 as stated: the anchor resultant is the sum by components of the two
\* forces, anchorTension its norm, and anchorAngle is atan2(Y, X) in
\* degrees, above -180 and at most 180.
AnchorAngleAboveMinus180 ==
  Returned =>
    /\ ResultantFormulas
    /\ FGt(locals.anchorAngleDeg, FromInt(-180))
    /\ FLe(locals.anchorAngleDeg, FromInt(180))
    /\ result.anchorAnalysis.anchorAngle.v > -1800
    /\ result.anchorAnalysis.anchorAngle.v <= 1800

\* C22: the anchor resultant is the sum by components of the kite-side
\* force (lineTension * cos(lineAngle), lineTension * sin(lineAngle)) and
\* the rotor-side force (drag, lift - gravity) with gravity = 9.81 *
\* rotorMass; anchorTension is its Euclidean norm, never negative, and
\* anchorAngle is atan2(Y, X) in degrees, at least -180 and at most 180;
\* the returned fields are these values rounded.
AnchorIsResultant ==
  Returned =>
    /\ ResultantFormulas
    /\ FGe(locals.anchorAngleDeg, FromInt(-180))
    /\ FLe(locals.anchorAngleDeg, FromInt(180))
    /\ result.anchorAnalysis.anchorAngle.v >= -1800
    /\ result.anchorAnalysis.anchorAngle.v <= 1800

\* A resultant along -X from just below it: Y is negative and so small
\* against X that atan2 rounds to -pi, and the angle is -180 itself.
AnchorAngleAtMinus180 ==
  /\ Returned
  /\ FLt(locals.f_anchor_total[1], Zero)
  /\ FLt(locals.f_anchor_total[2], Zero)
  /\ locals.anchorAngleDeg = FromInt(-180)
  /\ result.anchorAnalysis.anchorAngle = Num(-1800)

\* clamp(100 - 3 * ratio - 2 * |tilt|, 0, 100)
ClampedScore(ratio, tilt) ==
  MathMin(FromInt(100), MathMax(Zero,
    FSub(FSub(FromInt(100), FMul(ratio, FromInt(3))),
         FMul(FAbs(tilt), FromInt(2)))))

\* Two neighbouring positions of the tilt slider, in thousandths of a degree.
TiltProbes == {-13000, -14000}

\* The stability score calculatePhysics returns for p with its tilt set to t.
ScoreAtTilt(p, t) ==
  calculatePhysics([p EXCEPT !.rotorTilt = t]).stabilityScore.v

\* C23 as stated: with every other field of the configuration fixed, the
\* returned stability score does not rise when |rotorTilt| grows.
ScoreNeverRisesWithTilt ==
  (Returned /\ HasTilt(params)) =>
    \A x \in TiltProbes : \A y \in TiltProbes :
      Abs(x) <= Abs(y) => ScoreAtTilt(params, y) <= ScoreAtTilt(params, x)

\* C23: stabilityScore = clamp(100 - 3 * tipSpeedRatio - 2 * |rotorTilt|,
\* 0, 100), computed from the damped tip speed ratio and then rounded to
\* the nearest integer; for a fixed ratio it does not rise when |rotorTilt|
\* grows and it is the same for a tilt of +x and of -x.
ScoreIsClampedPenalty ==
  Returned =>
    /\ locals.stabilityScore =
         ClampedScore(locals.expectedTipSpeedRatio, locals.rotorTilt)
    /\ result.stabilityScore = MathRound(locals.stabilityScore)
    /\ result.stabilityScore.kind = "num"
    /\ result.stabilityScore.v \in 0..100
    /\ \A x \in RotorTilts \cup TiltProbes :
         /\ ClampedScore(locals.expectedTipSpeedRatio, Field(-x))
              = ClampedScore(locals.expectedTipSpeedRatio, Field(x))
         /\ \A y \in RotorTilts \cup TiltProbes :
              Abs(x) <= Abs(y) =>
                FLe(ClampedScore(locals.expectedTipSpeedRatio, Field(y)),
                    ClampedScore(locals.expectedTipSpeedRatio, Field(x)))

\* A rotor tilted forwards and turning: both penalties act and the score
\* stays off its two clamps.
TiltedTurningRotorScored ==
  /\ Returned /\ locals.spinning
  /\ FLt(locals.rotorTilt, Zero)
  /\ FGt(locals.expectedTipSpeedRatio, Zero)
  /\ result.stabilityScore.v \in 1..59

\* The row of the table at the angle a, if there is one.
RowsAt(a) == {k \in 1..Len(PCA2_DATA) : PCA2_DATA[k].alpha = a}

\* p1 + ((a - a1) / (a2 - a1)) * (p2 - p1)
Lerp(a, a1, a2, p1, p2) ==
  FAdd(p1, FMul(FDiv(FSub(a, a1), FSub(a2, a1)), FSub(p2, p1)))

\* What a call with a finite argument has done so far: it is within the
\* first 14 iterations and has not fallen out of the loop; once it has
\* returned, on iteration loopIndex + 1, the value is the table's own at a
\* table angle, the interpolation of the two neighbouring rows otherwise,
\* taken at |alpha| clamped to [0, 90], and lies within the table's bounds.
InterpolationWithinTable ==
  (~NoTable /\ IsFinite(alpha)) =>
    /\ pc # "fallback"
    /\ loopIndex \in 0..13
    /\ pc = "return" =>
         /\ ClampedAbsAlpha(alpha) =
              (IF FGt(FAbs(alpha), FromInt(90)) THEN FromInt(90)
               ELSE FAbs(alpha))
         /\ \A k \in RowsAt(ClampedAbsAlpha(alpha)) :
              /\ coefficients.cl = PCA2_DATA[k].cl
              /\ coefficients.cd = PCA2_DATA[k].cd
         /\ FGe(ClampedAbsAlpha(alpha), PCA2_DATA[loopIndex + 1].alpha)
         /\ FLe(ClampedAbsAlpha(alpha), PCA2_DATA[loopIndex + 2].alpha)
         /\ coefficients.cl =
              Lerp(ClampedAbsAlpha(alpha), PCA2_DATA[loopIndex + 1].alpha,
                   PCA2_DATA[loopIndex + 2].alpha, PCA2_DATA[loopIndex + 1].cl,
                   PCA2_DATA[loopIndex + 2].cl)
         /\ coefficients.cd =
              Lerp(ClampedAbsAlpha(alpha), PCA2_DATA[loopIndex + 1].alpha,
                   PCA2_DATA[loopIndex + 2].alpha, PCA2_DATA[loopIndex + 1].cd,
                   PCA2_DATA[loopIndex + 2].cd)
         /\ FGe(coefficients.cl, Zero) /\ FLe(coefficients.cl, Dec(95, 2))
         /\ FGe(coefficients.cd, Dec(1, 2)) /\ FLe(coefficients.cd, Dec(125, 2))

\* C24: for every finite alpha interpolateCoefficients terminates, within
\* 14 loop iterations and by the return inside the loop, never by the
\* fallback; it returns the table's cl and cd at a table angle and the
\* linear interpolation of the neighbouring rows in between, at |alpha|
\* clamped to [0, 90], so that 0 <= cl <= 0.95 and 0.01 <= cd <= 1.25.
InterpolationTerminatesInTable ==
  /\ []InterpolationWithinTable
  /\ (~NoTable /\ IsFinite(alpha)) => <>(pc = "return")

\* A call that returned on the last iteration, from the last row of the
\* table, for an argument beyond -90 degrees.
LastSegmentReturned ==
  /\ ~NoTable /\ pc = "return"
  /\ FLt(alpha, FromInt(-90))
  /\ loopIndex = 13
  /\ coefficients = [cl |-> Zero, cd |-> Dec(125, 2)]

\* A result as the branch rpm <= 10 leaves it: no lift and every field of
\* bladeAerodynamics 0.
StationaryResult(r) ==
  /\ r.lift = ToFixed(Zero, 2)
  /\ \A f \in BladeAerodynamicsFields(r.bladeAerodynamics) :
       f.kind = "num" /\ f.v = 0

\* C25 as stated: a returned rpm of 10 or less comes with a result of the
\* stationary branch, a returned rpm above 10 with one of the
\* blade-element branch.
ReturnedRpmTellsRegime ==
  (Returned /\ result.rpm.kind = "num") =>
    /\ result.rpm.v <= 10 => (~locals.spinning /\ StationaryResult(result))
    /\ result.rpm.v > 10 => locals.spinning

\* C25: a returned rpm above 10 comes with a result of the blade-element
\* branch and a returned rpm below 10 with one of the stationary branch
\* (no lift, every field of bladeAerodynamics 0); a returned rpm of exactly
\* 10 comes with either, the stationary branch when the rpm before rounding
\* was at most 10 and the blade-element branch when it was above.
ReturnedRpmTellsRegimeOffTen ==
  Returned =>
    /\ result.rpm = MathRound(locals.rpm)
    /\ locals.spinning = FGt(locals.rpm, FromInt(10))
    /\ ~locals.spinning => StationaryResult(result)
    /\ result.rpm.kind = "num" =>
         /\ result.rpm.v > 10 => locals.spinning
         /\ result.rpm.v < 10 => ~locals.spinning
         /\ result.rpm.v = 10 => (locals.spinning <=> FGt(locals.rpm, FromInt(10)))
    /\ result.rpm.kind = "Infinity" => locals.spinning
    /\ result.rpm.kind = "NaN" => ~locals.spinning

\* A rotor turning at a little over 10 rpm: the blade-element branch ran
\* and the rpm returned is 10.
SpinningAtReturnedTen ==
  /\ Returned /\ locals.spinning
  /\ result.rpm = Num(10)
  /\ ~StationaryResult(result)

\* The results of the latest render are those of the design App holds now,
\* and so are the results every child is handed.
ResultsOfCurrentParams ==
  (~NoApp /\ pc = "idle") =>
    /\ result = calculatePhysics(heap[params.ref])
    /\ Rendered(activeTab, params, result).ThreeScene.results
         = calculatePhysics(heap[params.ref])
    /\ Rendered(activeTab, params, result).Overlay.results
         = calculatePhysics(heap[params.ref])
    /\ activeTab = "analysis" =>
         Rendered(activeTab, params, result).Panel.currentResults
           = calculatePhysics(heap[params.ref])
    /\ activeTab = "assistant" =>
         Rendered(activeTab, params, result).Panel.results
           = calculatePhysics(heap[params.ref])

\* A step that changes the tab, or the render that follows it, changes
\* neither the design nor the results.
TabSwitchKeepsDesign ==
  (activeTab' # activeTab \/ (pc = "render" /\ memo.deps = params)) =>
    /\ params' = params /\ heap' = heap /\ result' = result

\* C26: after any sequence of edits and tab switches the results handed to
\* the 3D view, the overlay, Analysis and Assistant are calculatePhysics of
\* the params App holds at that moment, never those of an earlier params,
\* and a tab switch leaves params and results as they were.
ResultsFollowParams ==
  /\ []ResultsOfCurrentParams
  /\ [][TabSwitchKeepsDesign]_vars

\* Three edits later, on the Assistant tab: the results shown are no longer
\* those of the first design nor of the one before the last edit.
EditedDesignOnAssistantTab ==
  /\ ~NoApp /\ pc = "idle" /\ activeTab = "assistant"
  /\ Len(heap) = 4 /\ params = Ref(4)
  /\ result # calculatePhysics(heap[1])
  /\ result # calculatePhysics(heap[3])

\* What handleChange(key, value) emits for the design p: an object other
\* than p, with value in its field key and every other field as in p, and
\* every object that was there before left as it was.
EmitsOneFieldChanged(h, p, key, value) ==
  LET out == SpreadField(h, p, key, value)
  IN  /\ out.arg # p
      /\ out.heap[out.arg.ref][key] = value
      /\ DOMAIN out.heap[out.arg.ref] = DOMAIN h[p.ref] \cup {key}
      /\ \A f \in DOMAIN h[p.ref] \ {key} :
           out.heap[out.arg.ref][f] = h[p.ref][f]
      /\ \A k \in 1..Len(h) : out.heap[k] = h[k]

\* A step that changes the design or the heap is an edit: params becomes
\* an object that was not there before, equal to the previous design but
\* for one slider's field, and every earlier object is left as it was.
EditEmitsNewDesign ==
  (params' # params \/ heap' # heap) =>
    /\ params'.ref = Len(heap) + 1 /\ Len(heap') = Len(heap) + 1
    /\ \E e \in SliderEdits :
         /\ heap'[params'.ref][e.key] = e.value
         /\ \A f \in DOMAIN heap[params.ref] \ {e.key} :
              heap'[params'.ref][f] = heap[params.ref][f]
    /\ \A k \in 1..Len(heap) : heap'[k] = heap[k]

\* C27: handleChange(key, value) emits a new configuration in which the
\* field key has the new value and every other field has the value it had
\* in the previous params, and the previous params object is not modified.
HandleChangeCopiesParams ==
  /\ [](~NoApp => \A e \in SliderEdits :
                    EmitsOneFieldChanged(heap, params, e.key, e.value))
  /\ [][EditEmitsNewDesign]_vars

\* Two edits of the same slider: the first design and the one in between
\* are both still on the heap, each with its own wind speed.
SameSliderMovedTwice ==
  /\ ~NoApp /\ Len(heap) = 3 /\ params = Ref(3)
  /\ heap[1].windSpeed = 10000
  /\ heap[2].windSpeed = 0
  /\ heap[3] = heap[1]

---------------------------------------------------------------------------
(* The Assistant's sends and the requests in flight.                       *)

\* A step from a state where the input is blank or a request is loading is
\* not a send: it appends no user message, issues no request, does not
\* start loading, and changes the input only if the user typed (in which
\* case nothing else changes).
BlockedSendDoesNothing ==
  (~NoChat /\ (Trim(input) = <<>> \/ isLoading)) =>
    /\ Sent(messages') = Sent(messages)
    /\ Len(inFlight') <= Len(inFlight)
    /\ isLoading' => isLoading
    /\ input' # input =>
         /\ input' \in Texts
         /\ messages' = messages /\ isLoading' = isLoading
         /\ inFlight' = inFlight

\* At most one call of sendMessageToGemini has not yet settled, and loading
\* is on exactly while there is one.
OneRequestOutstanding ==
  ~NoChat => /\ Len(inFlight) <= 1
             /\ isLoading <=> inFlight # <<>>

\* C28: handleSend does nothing (no message, no request, input and
\* isLoading as they were) when the input is empty or whitespace-only or
\* while a request is in flight, and under every interleaving of sends and
\* response arrivals at most one request to sendMessageToGemini is
\* outstanding.
SendsAreSerialised ==
  /\ []OneRequestOutstanding
  /\ [][BlockedSendDoesNothing]_vars

\* The user has typed the next question while the first request is still
\* loading: a send now would be a second request.
SecondQuestionWhileLoading ==
  /\ ~NoChat /\ isLoading /\ Len(inFlight) = 1
  /\ Trim(input) # <<>>
  /\ Sent(messages) = 1

\* The list is the greeting followed by the exchanges: each user message
\* is followed by one model message, but for the last one while its request
\* is loading.
MessagesAlternate ==
  ~NoChat =>
    /\ messages[1] = [role |-> "model", text |-> Greeting]
    /\ \A i \in 2..Len(messages) :
         messages[i].role = (IF i % 2 = 0 THEN "user" ELSE "model")
    /\ isLoading <=> (Len(messages) % 2 = 0)

\* The text of a model message: what the service resolved to, or the
\* apology of the catch block when the call rejected.
AnswerTexts == {ModelMessage(Settle(genAI, o)).text : o \in ApiOutcomes}

\* A step only appends to the list; what it appends is the message the user
\* sent, or one model message for the question that was waiting, and that
\* one ends loading.
MessagesOnlyAppended ==
  ~NoChat =>
    /\ Len(messages') >= Len(messages)
    /\ SubSeq(messages', 1, Len(messages)) = messages
    /\ Len(messages') <= Len(messages) + 1
    /\ Len(messages') = Len(messages) + 1 =>
         \/ /\ messages'[Len(messages')] = [role |-> "user", text |-> input]
            /\ Trim(input) # <<>>
            /\ inFlight' = Append(inFlight, inFlight'[Len(inFlight')])
            /\ inFlight'[Len(inFlight')].message = input
         \/ /\ messages'[Len(messages')].role = "model"
            /\ messages'[Len(messages')].text \in AnswerTexts
            /\ inFlight # <<>>
            /\ Head(inFlight).message = messages[Len(messages)].text
            /\ inFlight' = Tail(inFlight)
            /\ ~isLoading'

\* Every question waiting for its answer gets it, and loading ends.
EveryQuestionAnswered ==
  \A n \in 1..(MaxSends + 1) :
    (~NoChat /\ isLoading /\ Len(messages) = 2 * n)
      ~> (~isLoading /\ Len(messages) = 2 * n + 1
          /\ messages[2 * n + 1].role = "model")

\* C29: every accepted send appends the user's message and later exactly
\* one model message for it (the response text, or the error text when the
\* call rejects), isLoading eventually returns to false whether the request
\* succeeds or fails, and the list is append-only and always starts with
\* the greeting.
EverySendAnsweredOnce ==
  /\ []MessagesAlternate
  /\ [][MessagesOnlyAppended]_vars
  /\ EveryQuestionAnswered

\* Two exchanges done: one request succeeded, the other call rejected, and
\* both questions have their answer, the second the apology.
TwoAnswersOneFailed ==
  /\ ~NoChat /\ genAI /\ ~isLoading /\ Len(messages) = 5
  /\ messages[3] = [role |-> "model", text |-> <<"Reduce the pitch.">>]
  /\ "isError" \in DOMAIN messages[5]
  /\ messages[5].text
       = <<"Sorry, I encountered an error communicating with the design server.">>

---------------------------------------------------------------------------
(* sendMessageToGemini as the Assistant calls it.                          *)

\* What the claim says the service resolves to for each way the request
\* can end.
IsServiceAnswer(client, outcome, text) ==
  IF ~client
  THEN text = NotConfiguredText
  ELSE IF outcome.kind = "text"
       THEN text = (IF outcome.text = <<>> THEN NoResponseText
                    ELSE outcome.text)
       ELSE /\ Head(text) = "Error: "
            /\ Len(text) = 2
            /\ outcome.text # <<>> => Tail(text) = outcome.text

\* A call that settles is fulfilled with a text: handleSend, resuming,
\* appends a message of the try block, whose text is a string.
SettlesFulfilled ==
  (~NoChat /\ inFlight # <<>> /\ inFlight' = Tail(inFlight)) =>
    /\ DOMAIN messages'[Len(messages')] = {"role", "text"}
    /\ Len(messages'[Len(messages')].text) >= 1
    /\ \A i \in 1..Len(messages'[Len(messages')].text) :
         messages'[Len(messages')].text[i] \in STRING

\* A call issued a request exactly if a client is configured, and no answer
\* in the list came from the catch block of handleSend.
RequestOnlyWithClient ==
  ~NoChat =>
    /\ \A i \in 1..Len(inFlight) : (inFlight[i].api = NoValue) <=> ~genAI
    /\ \A i \in 1..Len(messages) : DOMAIN messages[i] = {"role", "text"}
    /\ ~genAI => \A i \in 3..Len(messages) :
                   messages[i].role = "model" =>
                     messages[i].text = NotConfiguredText

\* An answer appended is the service's answer for one of the ways the
\* request can end.
AnswerIsServiceAnswer ==
  (~NoChat /\ Len(messages') = Len(messages) + 1
     /\ messages'[Len(messages')].role = "model") =>
    \E o \in ApiOutcomes :
      IsServiceAnswer(genAI, o, messages'[Len(messages')].text)

\* C30: sendMessageToGemini always resolves to a string and never rejects:
\* without a client it returns the fixed 'API Key not configured' text and
\* issues no request, an empty response yields 'No response generated.',
\* and a failed call is returned as an 'Error: ...' string.
ServiceNeverRejects ==
  /\ []RequestOnlyWithClient
  /\ [][SettlesFulfilled /\ AnswerIsServiceAnswer]_vars

=============================================================================
